---- MODULE Spec2Model ----
(***************************************************************************)
(* Quota ledger (TokenService) and subscription reconciler                 *)
(* (PaymentService) of the Knugget backend, for one subscriber row.        *)
(*                                                                         *)
(* Every "await" on the store or on the payment provider is one atomic     *)
(* step of the calling request; requests of different callers interleave   *)
(* between those steps.  Dates are points on an integer time line, a       *)
(* nullable value is the empty tuple NULL or a one-element tuple.          *)
(***************************************************************************)
EXTENDS Integers, FiniteSets, Sequences, TLC

\* ---------------------------------------------------------------- bounds
\* Last instant of the modelled time line (new Date() ranges over 0..MaxTime).
MaxTime == 1
\* Length of "one calendar month" on the time line.
MonthLen == 1
\* Largest token amount a single request asks for in either pool.
MaxUse == 1
\* Number of requests that are started in one behaviour.
MaxCalls == 3
\* Number of leading requests of a behaviour that can be webhook deliveries.
MaxDeliveries == 2
\* Largest length of a transcript text.
MaxTextLen == 40
\* Length of the dedup window (24 hours) on the time line.
DedupWindow == 1
\* Number of leading requests of a behaviour that can be success redirects.
MaxRedirects == 1
\* Deployment configuration of the plan limits (FREE_INPUT_TOKENS, ...,
\* PRO_OUTPUT_TOKENS of the environment), scaled down.
TokensFreeInput == 2
TokensFreeOutput == 1
TokensLiteInput == 3
TokensLiteOutput == 2
TokensProInput == 4
TokensProOutput == 3
\* Summary requests of one behaviour.
MaxSummaries == 2
\* Longest transcript text of a summary request, in characters.
MaxTranscriptLen == 12
\* MAX_TRANSCRIPT_LENGTH on the scale of the transcripts of the model.
MAX_TRANSCRIPT_LENGTH == 11
\* Most chunks chunkTranscript cuts a transcript into.
MaxChunks == 2
\* Largest token count of either kind in a usage report of the model.
MaxReported == 1
\* Deployment configuration of the monthly video limits, scaled down.
VideoLimitFree == 1
VideoLimitLite == 2
VideoLimitPro == 3

\* ------------------------------------------------------------ value sets
NULL == <<>>
Some(v) == <<v>>
Val(o) == o[1]

Procs == {"r1", "r2"}
\* The plans initializePlanTokens is called with.
UserPlan == {"FREE", "LITE", "PRO"}
SubscriptionIds == {"sub_1"}
\* The webhook-id headers of the deliveries.
WebhookIds == {"wh_1", "wh_2"}
\* The subscriber the requests are about, and the other rows of the table.
UserId == "u1"
OtherIds == {"u2", "u3"}
\* Provider statuses a fetch can report; NULL is a response without status.
DodoStatuses == {Some("active"), Some("cancelled"), Some("pending"), NULL}
Amounts == 0..MaxUse
\* Dates the provider reports as next_billing_date.
BillingDates == {NULL} \cup {Some(d) : d \in 1..MaxTime}

\* `date && date <= t` of the code: a non-null date that is not later than t.
IsDue(date, t) == date # NULL /\ Val(date) <= t
\* `a || b` on nullable dates.
OrElse(a, b) == IF a # NULL THEN a ELSE b

VARIABLES now, user, pc, local, returned, calls, processedWebhooks, others,
          timers

vars ==
  <<now, user, pc, local, returned, calls, processedWebhooks, others, timers>>

\* -------------------------------------------------------- configuration
tokens ==
  [free |-> [input |-> TokensFreeInput, output |-> TokensFreeOutput],
   lite |-> [input |-> TokensLiteInput, output |-> TokensLiteOutput],
   pro  |-> [input |-> TokensProInput,  output |-> TokensProOutput]]

\* The switch over the plan in initializePlanTokens and resetTokens.
PlanTokens(plan) ==
  CASE plan = "FREE" -> tokens.free
    [] plan = "LITE" -> tokens.lite
    [] plan = "PRO"  -> tokens.pro
    [] OTHER         -> tokens.free

getNextMonthDate(t) == Some(t + MonthLen)

videoLimits ==
  [free |-> VideoLimitFree, lite |-> VideoLimitLite, pro |-> VideoLimitPro]

\* The switch over the plan in generateSummary.
VideoLimit(plan) ==
  CASE plan = "FREE" -> videoLimits.free
    [] plan = "LITE" -> videoLimits.lite
    [] plan = "PRO"  -> videoLimits.pro
    [] OTHER         -> videoLimits.free

\* ------------------------------------------------------------ the state
\* The row written by prisma.user.create for a new account; the token
\* columns take their column defaults.
NewUser ==
  [plan |-> "FREE",
   inputTokensRemaining |-> 0,
   outputTokensRemaining |-> 0,
   tokenResetDate |-> NULL,
   videosProcessedThisMonth |-> 0,
   videoResetDate |-> NULL,
   subscriptionId |-> NULL,
   subscriptionStatus |-> "free",
   nextBillingDate |-> NULL,
   cancelAtBillingDate |-> FALSE]

\* What findUnique finds after prisma.user.delete: no row.
Gone == [deleted |-> TRUE]

\* Local variables of a request between two awaits; the three columns at
\* the end are the balances and the reset date of the row object that
\* checkTokenAvailability holds.
NoLocal ==
  [inputTokens |-> 0, outputTokens |-> 0, caller |-> "none",
   plan |-> "FREE", date |-> NULL,
   dbPlan |-> "FREE", dbStatus |-> "free", isPremium |-> FALSE,
   dodoStatus |-> NULL, nextBilling |-> NULL, cancelAtNext |-> FALSE,
   subscriptionId |-> NULL, now |-> 0,
   via |-> "none", webhookId |-> NULL,
   usersToReset |-> <<>>, updatedCount |-> 0, aiCalls |-> 0,
   changed |-> FALSE, httpStatus |-> "none", body |-> "none",
   inStep |-> FALSE,
   tooLong |-> FALSE, phase |-> "single", chunksLeft |-> 0, empty |-> FALSE,
   inputTokensRemaining |-> 0, outputTokensRemaining |-> 0,
   tokenResetDate |-> NULL]

\* What the last finished request returned (or threw), with the amounts or
\* the plan or the length of the text it was called with; thrown marks a
\* null that the catch block of the sync produced.
NoReturn ==
  [op |-> "none", code |-> "none",
   inputTokens |-> 0, outputTokens |-> 0, plan |-> "none",
   inputTokensRemaining |-> 0, outputTokensRemaining |-> 0,
   tokenResetDate |-> NULL,
   hasEnoughTokens |-> FALSE, isTokensExhausted |-> FALSE,
   thrown |-> FALSE, usersUpdated |-> 0, textLength |-> 0, aiCalls |-> 0,
   changed |-> FALSE, error |-> "none"]

Init ==
  /\ now = 0
  /\ user = NewUser
  /\ pc = [p \in Procs |-> "idle"]
  /\ local = [p \in Procs |-> NoLocal]
  /\ returned = NoReturn
  /\ calls = 0
  /\ processedWebhooks = {}
  /\ timers = {}
  /\ others = [id \in OtherIds |-> NewUser]

\* A request finishes: its locals die, its result is what was returned last.
Finish(p, r) ==
  /\ pc' = [pc EXCEPT ![p] = "idle"]
  /\ local' = [local EXCEPT ![p] = NoLocal]
  /\ returned' = r

Goto(p, label, l) ==
  /\ pc' = [pc EXCEPT ![p] = label]
  /\ local' = [local EXCEPT ![p] = l]
  /\ UNCHANGED returned

\* A request starts in a free slot.  The slots are interchangeable, so the
\* second one is taken only while the first is busy.
Begin(p) ==
  /\ pc[p] = "idle"
  /\ p = "r1" \/ pc["r1"] # "idle"
  /\ calls < MaxCalls
  /\ calls' = calls + 1

\* The TokenStatus object built from a row and the two flags.
TokenStatus(p, opname, code, row, enough, exhausted, u) ==
  [NoReturn EXCEPT
     !.op = opname, !.code = code,
     !.inputTokens = u.inputTokens, !.outputTokens = u.outputTokens,
     !.inputTokensRemaining = row.inputTokensRemaining,
     !.outputTokensRemaining = row.outputTokensRemaining,
     !.tokenResetDate = row.tokenResetDate,
     !.hasEnoughTokens = enough, !.isTokensExhausted = exhausted]

Failure(p, opname, code, u) ==
  [NoReturn EXCEPT !.op = opname, !.code = code,
                   !.inputTokens = u.inputTokens,
                   !.outputTokens = u.outputTokens]

Usage(i, o) == [inputTokens |-> i, outputTokens |-> o]

\* --------------------------------------------------- estimateTokenUsage
\* Math.ceil(a / b) for a natural a and a positive b.
Ceil(a, b) == (a + b - 1) \div b

\* Variant: the estimate rounds down.
estimateTokenUsage_Floor(length) ==
  LET inputTokens == length \div 4
      outputTokens == (inputTokens * 15) \div 100
  IN Usage(inputTokens, outputTokens)

\* estimateTokenUsage on a text of the given length: a quarter of the length,
\* and 15% of that (the double product inputTokens * 0.15 has the ceiling of
\* the exact 15 * inputTokens / 100 for every length up to several million).
estimateTokenUsage(length) ==
  LET inputTokens == Ceil(length, 4)
      outputTokens == Ceil(inputTokens * 15, 100)
  IN Usage(inputTokens, outputTokens)

\* A call of estimateTokenUsage with a text of some length.
EstimateCall(p) ==
  /\ Begin(p)
  /\ \E length \in 0..MaxTextLen :
       LET usage == estimateTokenUsage(length)
       IN Finish(p, [NoReturn EXCEPT !.op = "estimate", !.code = "ok",
                                     !.textLength = length,
                                     !.inputTokens = usage.inputTokens,
                                     !.outputTokens = usage.outputTokens])
  /\ UNCHANGED <<now, user, processedWebhooks, others, timers>>

\* ------------------------------------------------------- consumeTokens
\* Variant: the request is refused only when both pools are short.
Insufficient_BothPools(row, usage) ==
  /\ row.inputTokensRemaining < usage.inputTokens
  /\ row.outputTokensRemaining < usage.outputTokens

\* The guard of consumeTokens on the row it has read.
Insufficient(row, usage) ==
  \/ row.inputTokensRemaining < usage.inputTokens
  \/ row.outputTokensRemaining < usage.outputTokens

\* findUnique and the check on the row that was read.
ConsumeRead(p) ==
  /\ Begin(p)
  /\ \E i \in Amounts, o \in Amounts :
       IF user = Gone
       THEN Finish(p, Failure(p, "consume", "404", Usage(i, o)))
       ELSE IF Insufficient(user, Usage(i, o))
       THEN Finish(p, Failure(p, "consume", "402", Usage(i, o)))
       ELSE Goto(p, "consume_update",
                 [NoLocal EXCEPT !.inputTokens = i, !.outputTokens = o])
  /\ UNCHANGED <<now, user, processedWebhooks, others, timers>>

\* Variant: a decrement that stops at zero.
Decrement_Clamped(row, usage) ==
  [row EXCEPT
     !.inputTokensRemaining =
        IF row.inputTokensRemaining < usage.inputTokens THEN 0
        ELSE row.inputTokensRemaining - usage.inputTokens,
     !.outputTokensRemaining =
        IF row.outputTokensRemaining < usage.outputTokens THEN 0
        ELSE row.outputTokensRemaining - usage.outputTokens]

\* The row after `{ decrement: ... }` on both counters.
Decrement(row, usage) ==
  [row EXCEPT
     !.inputTokensRemaining = row.inputTokensRemaining - usage.inputTokens,
     !.outputTokensRemaining = row.outputTokensRemaining - usage.outputTokens]

\* prisma.user.update with the two decrements; returns the updated row.  On
\* a row that is gone the update throws, which the catch turns into a 500.
ConsumeUpdate(p) ==
  /\ pc[p] = "consume_update"
  /\ IF user = Gone
     THEN /\ Finish(p, Failure(p, "consume", "500", local[p]))
          /\ UNCHANGED user
     ELSE /\ user' = Decrement(user, local[p])
          /\ LET exhausted == \/ user'.inputTokensRemaining <= 0
                              \/ user'.outputTokensRemaining <= 0
             IN Finish(p, TokenStatus(p, "consume", "ok", user', ~exhausted,
                                      exhausted, local[p]))
  /\ UNCHANGED <<now, calls, processedWebhooks, others, timers>>

\* --------------------------------------------------------- resetTokens
\* Variant: the allocation is added to what is left.
ResetRow_TopsUp(row, plan, date) ==
  [row EXCEPT
     !.inputTokensRemaining =
        row.inputTokensRemaining + PlanTokens(plan).input,
     !.outputTokensRemaining =
        row.outputTokensRemaining + PlanTokens(plan).output,
     !.tokenResetDate = date,
     !.videosProcessedThisMonth = 0,
     !.videoResetDate = date]

\* The write of resetTokens: full allocation of the plan that was read, both
\* reset dates moved to the date computed from the row that was read.
ResetRow(row, plan, date) ==
  [row EXCEPT
     !.inputTokensRemaining = PlanTokens(plan).input,
     !.outputTokensRemaining = PlanTokens(plan).output,
     !.tokenResetDate = date,
     !.videosProcessedThisMonth = 0,
     !.videoResetDate = date]

\* The balances and the video counter of a row.
Counters(row) ==
  <<row.inputTokensRemaining, row.outputTokensRemaining,
    row.videosProcessedThisMonth>>

\* findUnique of resetTokens (plan, nextBillingDate) and the date it computes.
ResetLocals(l) ==
  [l EXCEPT
     !.plan = user.plan,
     !.date = OrElse(user.nextBillingDate, getNextMonthDate(now))]

\* An error of resetTokens as its caller throws it on: every catch on the
\* way hands an AppError on with its status code.
ResetFailure(code, l) ==
  CASE l.caller = "check" -> Failure("none", "check", code, l)
    [] l.caller \in {"summary", "openai"} ->
         [NoReturn EXCEPT !.op = "summary", !.code = code,
                          !.aiCalls = l.aiCalls, !.changed = l.changed]
    [] l.caller = "status" -> Failure("none", "status", code, Usage(0, 0))
    [] OTHER -> [NoReturn EXCEPT !.op = "reset", !.code = code]

\* resetTokens called on its own (administrative reset of one subscriber).
ResetStart(p) ==
  /\ Begin(p)
  /\ IF user = Gone
     THEN Finish(p, ResetFailure("404", [NoLocal EXCEPT !.caller = "reset"]))
     ELSE Goto(p, "reset_update",
               ResetLocals([NoLocal EXCEPT !.caller = "reset"]))
  /\ UNCHANGED <<now, user, processedWebhooks, others, timers>>

\* resetTokens called from checkTokenAvailability or getTokenStatus.
ResetRead(p) ==
  /\ pc[p] = "reset_read"
  /\ IF user = Gone
     THEN Finish(p, ResetFailure("404", local[p]))
     ELSE Goto(p, "reset_update", ResetLocals(local[p]))
  /\ UNCHANGED <<now, user, calls, processedWebhooks, others, timers>>

\* The update of resetTokens; on a row that is gone it throws, which the
\* catch turns into a 500.
ResetUpdate(p) ==
  /\ pc[p] = "reset_update"
  /\ IF user = Gone
     THEN /\ Finish(p, ResetFailure("500", local[p]))
          /\ UNCHANGED user
     ELSE /\ user' = ResetRow(user, local[p].plan, local[p].date)
          /\ CASE local[p].caller = "check" ->
                    Goto(p, "check_reread", local[p])
               [] local[p].caller \in {"summary", "openai"} ->
                    Goto(p, "preflight_reread",
                         [local[p] EXCEPT
                            !.changed =
                               @ \/ Counters(user') # Counters(user)])
               [] local[p].caller = "status" ->
                    Goto(p, "status_read", local[p])
               [] OTHER ->
                    Finish(p, [NoReturn EXCEPT !.op = "reset",
                                               !.code = "ok",
                                               !.plan = local[p].plan])
  /\ UNCHANGED <<now, calls, processedWebhooks, others, timers>>

\* ----------------------------------------------- checkTokenAvailability
\* Variant: a pool counts as sufficient only when it holds more than asked.
Availability_StrictlyMore(p, row, u) ==
  TokenStatus(p, "check", "ok", row,
              /\ row.inputTokensRemaining > u.inputTokens
              /\ row.outputTokensRemaining > u.outputTokens,
              \/ row.inputTokensRemaining <= 0
              \/ row.outputTokensRemaining <= 0,
              u)

\* The flags of checkTokenAvailability on a row.
Availability(p, row, u) ==
  TokenStatus(p, "check", "ok", row,
              /\ row.inputTokensRemaining >= u.inputTokens
              /\ row.outputTokensRemaining >= u.outputTokens,
              \/ row.inputTokensRemaining <= 0
              \/ row.outputTokensRemaining <= 0,
              u)

\* The row object of checkTokenAvailability after its first findUnique.
Held(l, row) ==
  [l EXCEPT !.inputTokensRemaining = row.inputTokensRemaining,
            !.outputTokensRemaining = row.outputTokensRemaining,
            !.tokenResetDate = row.tokenResetDate]

\* The row object after the second findUnique: the three columns are
\* copied from the row that was found; when none was found the object keeps
\* what the first findUnique read.
Refreshed(l) == IF user = Gone THEN l ELSE user

\* findUnique, then either the lazy reset or the answer.
CheckRead(p) ==
  /\ Begin(p)
  /\ \E i \in Amounts, o \in Amounts :
       IF user = Gone
       THEN Finish(p, Failure(p, "check", "404", Usage(i, o)))
       ELSE IF IsDue(user.tokenResetDate, now)
       THEN Goto(p, "reset_read",
                 Held([NoLocal EXCEPT !.caller = "check",
                                      !.inputTokens = i,
                                      !.outputTokens = o], user))
       ELSE Finish(p, Availability(p, user, Usage(i, o)))
  /\ UNCHANGED <<now, user, processedWebhooks, others, timers>>

\* The second findUnique, after the lazy reset.
CheckReread(p) ==
  /\ pc[p] = "check_reread"
  /\ Finish(p, Availability(p, Refreshed(local[p]), local[p]))
  /\ UNCHANGED <<now, user, calls, processedWebhooks, others, timers>>

\* ------------------------------------------------------ generateSummary
\* What a metered summary request returns or throws, with the number of
\* requests it sent to the model and whether a write of its own pre-flight
\* checks changed a balance or the video counter.
SummaryResult(code, l) ==
  [NoReturn EXCEPT !.op = "summary", !.code = code, !.aiCalls = l.aiCalls,
                   !.changed = l.changed]

\* SummaryService.generateSummary: the findUnique, the video limit, and the
\* estimate of the transcript text that is handed to the pre-flight check.
GenerateStart(p) ==
  /\ calls < MaxSummaries
  /\ Begin(p)
  /\ IF user = Gone
     THEN Finish(p, SummaryResult("404", NoLocal))
     ELSE IF user.videosProcessedThisMonth >= VideoLimit(user.plan)
     THEN Finish(p, SummaryResult("402", NoLocal))
     ELSE \E length \in 0..MaxTranscriptLen :
            LET usage == estimateTokenUsage(length)
            IN Goto(p, "preflight",
                    [NoLocal EXCEPT !.caller = "summary",
                                    !.inputTokens = usage.inputTokens,
                                    !.outputTokens = usage.outputTokens])
  /\ UNCHANGED <<now, user, processedWebhooks, others, timers>>

\* Variant: only exhausted pools stop the request.
Rejects_OnlyExhausted(status) == status.isTokensExhausted

\* The two tests on the answer of the pre-flight check.
Rejects(status) == status.isTokensExhausted \/ ~status.hasEnoughTokens

\* OpenAIService.generateSummary after its check: a transcript text longer
\* than MAX_TRANSCRIPT_LENGTH is summarised chunk by chunk (one request per
\* chunk of chunkTranscript, then the request for the final summary), any
\* other text with one request.  The estimate is not used after the check.
Dispatch(p, l) ==
  LET sent == [l EXCEPT !.inputTokens = 0, !.outputTokens = 0,
                        !.tooLong = FALSE]
  IN IF l.tooLong
     THEN \E n \in 1..MaxChunks :
            Goto(p, "ai_call",
                 [sent EXCEPT !.phase = "chunk", !.chunksLeft = n])
     ELSE Goto(p, "ai_call", [sent EXCEPT !.phase = "single"])

\* The answer of checkTokenAvailability on a row and what the request does
\* with it: 402, or on to the next await (the search for a stored summary
\* in SummaryService, the call of the model in OpenAIService).
Preflight(p, row) ==
  IF Rejects(Availability(p, row, local[p]))
  THEN Finish(p, SummaryResult("402", local[p]))
  ELSE IF local[p].caller = "summary"
       THEN Goto(p, "find_summary", local[p])
       ELSE Dispatch(p, local[p])

\* The findUnique of the pre-flight check, then the lazy reset or the answer.
PreflightRead(p) ==
  /\ pc[p] = "preflight"
  /\ IF user = Gone
     THEN Finish(p, SummaryResult("404", local[p]))
     ELSE IF IsDue(user.tokenResetDate, now)
     THEN Goto(p, "reset_read", Held(local[p], user))
     ELSE Preflight(p, user)
  /\ UNCHANGED <<now, user, calls, processedWebhooks, others, timers>>

\* The second findUnique of the pre-flight check, after the lazy reset.
PreflightReread(p) ==
  /\ pc[p] = "preflight_reread"
  /\ Preflight(p, Refreshed(local[p]))
  /\ UNCHANGED <<now, user, calls, processedWebhooks, others, timers>>

\* The search for a completed summary of the video: it is returned, or
\* OpenAIService.generateSummary is called, which estimates the transcript
\* with its timestamps (a text that is not shorter).
FindSummary(p) ==
  /\ pc[p] = "find_summary"
  /\ \E existing \in BOOLEAN :
       IF existing
       THEN Finish(p, SummaryResult("ok", local[p]))
       ELSE \E length \in 0..MaxTranscriptLen :
              LET usage == estimateTokenUsage(length)
              IN /\ usage.inputTokens >= local[p].inputTokens
                 /\ Goto(p, "openai_user",
                         [local[p] EXCEPT !.caller = "openai",
                                          !.tooLong =
                                             length > MAX_TRANSCRIPT_LENGTH,
                                          !.inputTokens = usage.inputTokens,
                                          !.outputTokens = usage.outputTokens])
  /\ UNCHANGED <<now, user, calls, processedWebhooks, others, timers>>

\* The findUnique of OpenAIService.generateSummary: the check is made for a
\* subscriber that is found and left out otherwise.
OpenAiUser(p) ==
  /\ pc[p] = "openai_user"
  /\ IF user = Gone
     THEN Dispatch(p, local[p])
     ELSE Goto(p, "preflight", local[p])
  /\ UNCHANGED <<now, user, calls, processedWebhooks, others, timers>>

\* Token counts the model reports in prompt_tokens and completion_tokens.
ReportedAmounts == 0..MaxReported

\* Status codes of a response of the provider that is not ok; 402 and 404
\* are codes the service throws of its own as well.
ProviderStatuses == {"401", "402", "404", "429", "503"}

\* What a request to the model comes back with: no response or a body that
\* is no JSON (status "500" of the error the catch builds), a response that
\* is not ok, or an answer with or without a text and with or without a
\* usage report.
Answers ==
  {[ok |-> FALSE, status |-> st, text |-> FALSE, usage |-> NULL] :
     st \in {"500"} \cup ProviderStatuses}
  \cup
  {[ok |-> TRUE, status |-> "200", text |-> t, usage |-> u] :
     t \in BOOLEAN,
     u \in {NULL} \cup {Some(Usage(i, o)) : i \in ReportedAmounts,
                                            o \in ReportedAmounts}}

\* The request after a chunk that failed: the error is logged and the loop
\* goes on with the next chunk, or with the request for the final summary.
NextChunk(p, l) ==
  IF l.chunksLeft > 1
  THEN Goto(p, "ai_call", [l EXCEPT !.chunksLeft = @ - 1])
  ELSE Goto(p, "ai_call", [l EXCEPT !.phase = "final", !.chunksLeft = 0])

\* The request after an answer and its accounting: a chunk is followed by
\* the delay before the next chunk or by the request for the final summary;
\* the only or the final answer is returned, and a final answer without a
\* text is a 500.
AfterAnswer(p, l) ==
  LET next == [l EXCEPT !.inputTokens = 0, !.outputTokens = 0,
                        !.empty = FALSE]
  IN IF l.phase = "chunk"
     THEN IF l.chunksLeft > 1
          THEN Goto(p, "chunk_delay", [next EXCEPT !.chunksLeft = @ - 1])
          ELSE Goto(p, "ai_call",
                    [next EXCEPT !.phase = "final", !.chunksLeft = 0])
     ELSE Finish(p, SummaryResult(IF l.empty THEN "500" ELSE "ok", l))

\* A request to the model.  A failure ends the request with the status of
\* the response (a chunk that fails is skipped); an only answer without a
\* text is a 500; an answer with a usage report is accounted for with
\* consumeTokens, one without is not.  The text of a chunk's answer goes
\* into the prompt of the final request and decides nothing else.
AiCall(p) ==
  /\ pc[p] = "ai_call"
  /\ LET called == [local[p] EXCEPT !.aiCalls = local[p].aiCalls + 1]
     IN \E answer \in Answers :
          IF ~answer.ok
          THEN IF called.phase = "chunk"
               THEN NextChunk(p, called)
               ELSE Finish(p, SummaryResult(answer.status, called))
          ELSE IF called.phase = "single" /\ ~answer.text
          THEN Finish(p, SummaryResult("500", called))
          ELSE IF answer.usage = NULL
          THEN AfterAnswer(p, [called EXCEPT
                                 !.empty = called.phase = "final"
                                             /\ ~answer.text])
          ELSE Goto(p, "ai_track",
                    [called EXCEPT
                       !.empty = called.phase = "final" /\ ~answer.text,
                       !.inputTokens = Val(answer.usage).inputTokens,
                       !.outputTokens = Val(answer.usage).outputTokens])
  /\ UNCHANGED <<now, user, calls, processedWebhooks, others, timers>>

\* The delay between two chunks.
ChunkDelay(p) ==
  /\ pc[p] = "chunk_delay"
  /\ Goto(p, "ai_call", local[p])
  /\ UNCHANGED <<now, user, calls, processedWebhooks, others, timers>>

\* trackUsage: the create of the usage record; an error it throws (no such
\* subscriber) is logged inside and the accounting goes on.
AiTrackUsage(p) ==
  /\ pc[p] = "ai_track"
  /\ Goto(p, "ai_user", local[p])
  /\ UNCHANGED <<now, user, calls, processedWebhooks, others, timers>>

\* The findUnique of the subscriber after trackUsage: for a subscriber that
\* is not found consumeTokens is not called.
AiUser(p) ==
  /\ pc[p] = "ai_user"
  /\ IF user = Gone
     THEN AfterAnswer(p, local[p])
     ELSE Goto(p, "ai_consume", local[p])
  /\ UNCHANGED <<now, user, calls, processedWebhooks, others, timers>>

\* consumeTokens with the reported usage, its findUnique and guard; an
\* error it throws (no row, a pool too low) is logged and the request goes
\* on.
AiConsumeRead(p) ==
  /\ pc[p] = "ai_consume"
  /\ IF user = Gone \/ Insufficient(user, local[p])
     THEN AfterAnswer(p, local[p])
     ELSE Goto(p, "ai_consume_update", local[p])
  /\ UNCHANGED <<now, user, calls, processedWebhooks, others, timers>>

\* The update of consumeTokens, after which the request goes on.
AiConsumeUpdate(p) ==
  /\ pc[p] = "ai_consume_update"
  /\ IF user = Gone
     THEN UNCHANGED user
     ELSE user' = Decrement(user, local[p])
  /\ AfterAnswer(p, local[p])
  /\ UNCHANGED <<now, calls, processedWebhooks, others, timers>>

\* ---------------------------------------------------------- saveSummary
\* What saveSummary returns or throws.
SaveResult(code) == [NoReturn EXCEPT !.op = "save", !.code = code]

\* SummaryService.saveSummary: with an id the stored summary is looked up;
\* without one the metadata of the video is required (400) and the quota of
\* the subscriber is read next.
SaveStart(p) ==
  /\ Begin(p)
  /\ \E hasId \in BOOLEAN, hasMetadata \in BOOLEAN :
       IF hasId
       THEN Goto(p, "save_find", [NoLocal EXCEPT !.caller = "save"])
       ELSE IF ~hasMetadata
            THEN Finish(p, SaveResult("400"))
            ELSE Goto(p, "save_quota", [NoLocal EXCEPT !.caller = "save"])
  /\ UNCHANGED <<now, user, processedWebhooks, others, timers>>

\* The findFirst of the summary that is to be updated: 404 when it is not
\* the caller's.
SaveFind(p) ==
  /\ pc[p] = "save_find"
  /\ \E found \in BOOLEAN :
       IF found
       THEN Goto(p, "save_update", local[p])
       ELSE Finish(p, SaveResult("404"))
  /\ UNCHANGED <<now, user, calls, processedWebhooks, others, timers>>

\* The update of a stored summary: the video counter is left alone.
SaveUpdate(p) ==
  /\ pc[p] = "save_update"
  /\ Finish(p, SaveResult("ok"))
  /\ UNCHANGED <<now, user, calls, processedWebhooks, others, timers>>

\* The findUnique of the subscriber and the test of the video limit.
SaveQuota(p) ==
  /\ pc[p] = "save_quota"
  /\ IF user = Gone
     THEN Finish(p, SaveResult("404"))
     ELSE IF user.videosProcessedThisMonth >= VideoLimit(user.plan)
     THEN Finish(p, SaveResult("402"))
     ELSE Goto(p, "save_existing", local[p])
  /\ UNCHANGED <<now, user, calls, processedWebhooks, others, timers>>

\* The search for a completed summary of the video: it is returned as it
\* is, or the new summary is created next.
SaveExisting(p) ==
  /\ pc[p] = "save_existing"
  /\ \E existing \in BOOLEAN :
       IF existing
       THEN Finish(p, SaveResult("ok"))
       ELSE Goto(p, "save_create", local[p])
  /\ UNCHANGED <<now, user, calls, processedWebhooks, others, timers>>

\* prisma.summary.create: an error becomes a 500.
SaveCreate(p) ==
  /\ pc[p] = "save_create"
  /\ \E ok \in BOOLEAN :
       IF ok
       THEN Goto(p, "save_increment", local[p])
       ELSE Finish(p, SaveResult("500"))
  /\ UNCHANGED <<now, user, calls, processedWebhooks, others, timers>>

\* The increment of the video counter after the summary is stored; on a
\* row that is gone the update throws (500).
SaveIncrement(p) ==
  /\ pc[p] = "save_increment"
  /\ user' = IF user = Gone THEN user
             ELSE [user EXCEPT !.videosProcessedThisMonth = @ + 1]
  /\ Finish(p, SaveResult(IF user = Gone THEN "500" ELSE "ok"))
  /\ UNCHANGED <<now, calls, processedWebhooks, others, timers>>

\* ------------------------------------------------------- getTokenStatus
\* One activation of getTokenStatus: findUnique, then either the reset
\* followed by the recursive call, or the answer.
StatusBody(p) ==
  IF user = Gone
  THEN Finish(p, Failure(p, "status", "404", Usage(0, 0)))
  ELSE IF IsDue(user.tokenResetDate, now)
  THEN Goto(p, "reset_read", [NoLocal EXCEPT !.caller = "status"])
  ELSE LET exhausted == \/ user.inputTokensRemaining <= 0
                        \/ user.outputTokensRemaining <= 0
       IN Finish(p, TokenStatus(p, "status", "ok", user, ~exhausted,
                                exhausted, Usage(0, 0)))

StatusStart(p) ==
  /\ Begin(p)
  /\ StatusBody(p)
  /\ UNCHANGED <<now, user, processedWebhooks, others, timers>>

\* The recursive call after the reset.
StatusRead(p) ==
  /\ pc[p] = "status_read"
  /\ StatusBody(p)
  /\ UNCHANGED <<now, user, calls, processedWebhooks, others, timers>>

\* ------------------------------------------------- initializePlanTokens
\* Variant: only the dates are written.
InitRow_DatesOnly(row, plan, date) ==
  [row EXCEPT
     !.tokenResetDate = date,
     !.videosProcessedThisMonth = 0,
     !.videoResetDate = date]

\* The write of initializePlanTokens.
InitRow(row, plan, date) ==
  [row EXCEPT
     !.inputTokensRemaining = PlanTokens(plan).input,
     !.outputTokensRemaining = PlanTokens(plan).output,
     !.tokenResetDate = date,
     !.videosProcessedThisMonth = 0,
     !.videoResetDate = date]

\* Variant: the subscriber's nextBillingDate is passed over.
InitDate_NoBillingDate(billingCycleEndDate) ==
  OrElse(billingCycleEndDate, getNextMonthDate(now))

\* billingCycleEndDate || user.nextBillingDate || getNextMonthDate()
InitDate(billingCycleEndDate) ==
  OrElse(billingCycleEndDate,
         OrElse(user.nextBillingDate, getNextMonthDate(now)))

\* initializePlanTokens(userId, plan, billingCycleEndDate) called on its own:
\* the findUnique and the values computed from it.
AllocateWith(p, plan, end) ==
  /\ Begin(p)
  /\ IF user = Gone
     THEN Finish(p, [NoReturn EXCEPT !.op = "allocate", !.code = "404",
                                     !.plan = plan])
     ELSE Goto(p, "init_update",
               [NoLocal EXCEPT !.caller = "allocate", !.plan = plan,
                               !.date = InitDate(end)])
  /\ UNCHANGED <<now, user, processedWebhooks, others, timers>>

\* initializePlanTokens called on its own with a plan and an optional date.
AllocateStart(p) ==
  \E plan \in UserPlan, end \in BillingDates : AllocateWith(p, plan, end)

\* handleSuccessRedirect returns nothing, whatever happened.
RedirectDone == [NoReturn EXCEPT !.op = "redirect", !.code = "ok"]

\* handleWebhook answers { success: true } on every path that can be taken.
WebhookSuccess == [NoReturn EXCEPT !.op = "webhook", !.code = "ok"]

\* getUserSubscriptionStatus answers with the response the sync fetched.
StatusSynced == [NoReturn EXCEPT !.op = "getstatus", !.code = "synced"]

\* syncSubscriptionFromDodo returns a non-null object after its write; called
\* from handleWebhook, the result is dropped and the handler answers success.
SyncReturn(p, l) ==
  CASE l.via = "webhook" -> WebhookSuccess
    [] l.via = "redirect" -> RedirectDone
    [] l.via = "getstatus" -> StatusSynced
    [] OTHER -> [NoReturn EXCEPT !.op = "sync", !.code = "ok"]

\* Variant: the sync allocates the LITE limits.
InitRead_Lite(p) ==
  /\ pc[p] = "init_read"
  /\ IF user = Gone
     THEN Finish(p, SyncReturn(p, local[p]))
     ELSE Goto(p, "init_update",
               [local[p] EXCEPT !.plan = "LITE",
                                !.date = InitDate(local[p].nextBilling)])
  /\ UNCHANGED <<now, user, calls, processedWebhooks, others, timers>>

\* initializePremiumTokens(userId, billingEndDate) called by the sync:
\* initializePlanTokens with UserPlan.PRO.  An error it throws (no row) is
\* logged by the sync, which returns what it has written.
InitRead(p) ==
  /\ pc[p] = "init_read"
  /\ IF user = Gone
     THEN Finish(p, SyncReturn(p, local[p]))
     ELSE Goto(p, "init_update",
               [local[p] EXCEPT !.plan = "PRO",
                                !.date = InitDate(local[p].nextBilling)])
  /\ UNCHANGED <<now, user, calls, processedWebhooks, others, timers>>

\* The update of initializePlanTokens; on a row that is gone it throws,
\* which is a 500 for a caller and no more than a log entry for the sync.
InitUpdate(p) ==
  /\ pc[p] = "init_update"
  /\ user' = IF user = Gone THEN user
             ELSE InitRow(user, local[p].plan, local[p].date)
  /\ IF local[p].caller = "sync"
     THEN Finish(p, SyncReturn(p, local[p]))
     ELSE Finish(p, [NoReturn EXCEPT !.op = "allocate",
                                     !.code = IF user = Gone THEN "500"
                                              ELSE "ok",
                                     !.plan = local[p].plan])
  /\ UNCHANGED <<now, calls, processedWebhooks, others, timers>>

\* ---------------------------------------------- syncSubscriptionFromDodo
\* The subscription objects the provider can answer a fetch with.
DodoResponses ==
  [status : DodoStatuses,
   cancel_at_next_billing_date : BOOLEAN,
   next_billing_date : BillingDates]

\* A response that is not ok carries no subscription; what stands in its
\* place is never looked at.
NoBody ==
  [status |-> Some("active"),
   cancel_at_next_billing_date |-> FALSE,
   next_billing_date |-> NULL]

\* What a fetch can come back with: not ok, or ok with a subscription.
FetchResults ==
  {<<FALSE, NoBody>>} \cup {<<TRUE, sub>> : sub \in DodoResponses}

\* Variant: a billing date equal to now still counts as ahead.
Later_OrEqual(date, t) == date # NULL /\ Val(date) >= t

\* `new Date(next_billing_date) > now`; new Date(null) is the epoch.
Later(date, t) == date # NULL /\ Val(date) > t

\* The if / else-if chain of the sync on the provider's response at time t.
\* thrown: the branch raised (toUpperCase of a missing status) and the catch
\* block returns null.
Classify(sub, t) ==
  LET dodoStatus == sub.status
      cancelAtNext == sub.cancel_at_next_billing_date
      nextBilling == sub.next_billing_date
  IN CASE dodoStatus = Some("active") /\ ~cancelAtNext ->
            [isPremium |-> TRUE, dbStatus |-> "active",
             dbPlan |-> "PREMIUM", thrown |-> FALSE]
       [] dodoStatus = Some("active") /\ cancelAtNext ->
            LET isPremium == Later(nextBilling, t)
            IN [isPremium |-> isPremium,
                dbStatus |-> IF isPremium THEN "cancelling" ELSE "expired",
                dbPlan |-> IF isPremium THEN "PREMIUM" ELSE "FREE",
                thrown |-> FALSE]
       [] dodoStatus = Some("cancelled") ->
            [isPremium |-> FALSE, dbStatus |-> "expired",
             dbPlan |-> "FREE", thrown |-> FALSE]
       [] OTHER ->
            [isPremium |-> FALSE,
             dbStatus |-> IF dodoStatus # NULL THEN Val(dodoStatus)
                          ELSE "free",
             dbPlan |-> "FREE", thrown |-> dodoStatus = NULL]

\* Variant: only a raised classification ends the sync with null.
ReturnsNull_OnlyThrown(ok, c) == c.thrown

\* The sync ends with `return null` and no write: the response was not ok
\* (first return) or the classification raised (catch block).
ReturnsNull(ok, c) == ~ok \/ c.thrown

\* What the caller sees of a sync that ended with null: handleWebhook drops
\* the result and answers success.
SyncNull(via, ok) ==
  CASE via = "webhook" -> [WebhookSuccess EXCEPT !.thrown = ok]
    [] via = "redirect" -> [RedirectDone EXCEPT !.thrown = ok]
    [] OTHER -> [NoReturn EXCEPT !.op = "sync", !.code = "null",
                                 !.thrown = ok]

\* The answer to the fetch and the classification of it, for the caller via.
\* getUserSubscriptionStatus goes on to its own fetch when the sync gave null.
\* The delivery id is not used after the fetch and is not kept.
Fetch(p, via, sid, ok, sub) ==
  LET c == Classify(sub, now)
  IN IF ReturnsNull(ok, c)
     THEN IF via = "getstatus"
          THEN Goto(p, "getstatus_fetch", [NoLocal EXCEPT !.via = via])
          ELSE Finish(p, SyncNull(via, ok))
     ELSE Goto(p, "sync_update",
               [NoLocal EXCEPT
                  !.caller = "sync",
                  !.via = via,
                  !.subscriptionId = Some(sid),
                  !.dodoStatus = sub.status,
                  !.cancelAtNext = sub.cancel_at_next_billing_date,
                  !.nextBilling = sub.next_billing_date,
                  !.now = now,
                  !.isPremium = c.isPremium,
                  !.dbStatus = c.dbStatus,
                  !.dbPlan = c.dbPlan])

\* syncSubscriptionFromDodo called on its own (manual sync, success redirect)
\* for subscription sid, the provider answering ok / sub.
SyncFetchWith(p, sid, ok, sub) ==
  /\ Begin(p)
  /\ Fetch(p, "sync", sid, ok, sub)
  /\ UNCHANGED <<now, user, processedWebhooks, others, timers>>

\* The fetch and the classification of what it answered.
SyncFetch(p) ==
  \E sid \in SubscriptionIds, r \in FetchResults :
    SyncFetchWith(p, sid, r[1], r[2])

\* Variant: a pending cancellation request is not overwritten.
SyncRow_KeepRequested(row, l) ==
  [row EXCEPT
     !.subscriptionId = l.subscriptionId,
     !.plan = l.dbPlan,
     !.subscriptionStatus =
        IF row.subscriptionStatus = "cancellation_requested"
        THEN row.subscriptionStatus ELSE l.dbStatus,
     !.nextBillingDate = l.nextBilling,
     !.cancelAtBillingDate = l.cancelAtNext]

\* Variant: the update leaves the stored status alone.
SyncRow_NoStatus(row, l) ==
  [row EXCEPT
     !.subscriptionId = l.subscriptionId,
     !.plan = l.dbPlan,
     !.nextBillingDate = l.nextBilling,
     !.cancelAtBillingDate = l.cancelAtNext]

\* The data of the sync's prisma.user.update.
SyncRow(row, l) ==
  [row EXCEPT
     !.subscriptionId = l.subscriptionId,
     !.plan = l.dbPlan,
     !.subscriptionStatus = l.dbStatus,
     !.nextBillingDate = l.nextBilling,
     !.cancelAtBillingDate = l.cancelAtNext]

\* The row holds the plan and the billing date already that the sync is
\* about to write.
InStep(row, l) ==
  /\ row.plan = l.dbPlan
  /\ row.nextBillingDate = l.nextBilling

\* The update, then either the token initialisation or the return; inStep
\* remembers whether the update found the row in step with the provider.
\* On a row that is gone the update throws and the catch block returns null.
SyncUpdate(p) ==
  /\ pc[p] = "sync_update"
  /\ IF user = Gone
     THEN /\ UNCHANGED user
          /\ IF local[p].via = "getstatus"
             THEN Goto(p, "getstatus_fetch",
                       [NoLocal EXCEPT !.via = "getstatus"])
             ELSE Finish(p, SyncNull(local[p].via, TRUE))
     ELSE /\ user' = SyncRow(user, local[p])
          /\ IF local[p].dbPlan = "PREMIUM" /\ local[p].isPremium
             THEN Goto(p, "init_read",
                       [local[p] EXCEPT !.inStep = InStep(user, local[p])])
             ELSE Finish(p, SyncReturn(p, local[p]))
  /\ UNCHANGED <<now, calls, processedWebhooks, others, timers>>

\* ----------------------------------------------------------- handleWebhook
\* Variant: the cleanup is due at once.
Timeout_NoDelay(id) == [id |-> id, at |-> now]

\* The timer that setTimeout arms for a delivery id: due one window from now.
Timeout(id) == [id |-> id, at |-> now + DedupWindow]

\* Delivery id of the webhook that slot p is handling.
Delivery(p) == Val(local[p].webhookId)

\* Variant: no delivery counts as processed.
AlreadyProcessed_Never(id) == FALSE

\* this.processedWebhooks.has(webhookId)
AlreadyProcessed(id) == id \in processedWebhooks

\* The synchronous head of handleWebhook for delivery id: the dedup test, the
\* add to the set (with its cleanup timer), the test for the two identifiers
\* of the event, and the call of the sync.
WebhookWith(p, id, hasIds) ==
  /\ Begin(p)
  /\ calls < MaxDeliveries
  /\ IF AlreadyProcessed(id)
     THEN /\ Finish(p, WebhookSuccess)
          /\ UNCHANGED <<processedWebhooks, timers>>
     ELSE /\ processedWebhooks' = processedWebhooks \cup {id}
          /\ timers' = timers \cup {Timeout(id)}
          /\ IF ~hasIds
             THEN Finish(p, WebhookSuccess)
             ELSE \E sid \in SubscriptionIds :
                    Goto(p, "webhook_fetch",
                         [NoLocal EXCEPT !.via = "webhook",
                                         !.webhookId = Some(id),
                                         !.subscriptionId = Some(sid)])
  /\ UNCHANGED <<now, user, others>>

WebhookStart(p) ==
  \E id \in WebhookIds, hasIds \in BOOLEAN : WebhookWith(p, id, hasIds)

\* The provider's answer to the fetch of the sync that the handler awaits.
WebhookFetchWith(p, ok, sub) ==
  /\ pc[p] = "webhook_fetch"
  /\ Fetch(p, "webhook", Val(local[p].subscriptionId), ok, sub)
  /\ UNCHANGED <<now, user, calls, processedWebhooks, others, timers>>

WebhookFetch(p) ==
  \E r \in FetchResults : WebhookFetchWith(p, r[1], r[2])

\* A cleanup timer fires, not before its delay has passed, and deletes its
\* delivery id from the set.
TimerFire(t) ==
  /\ t \in timers
  /\ now >= t.at
  /\ timers' = timers \ {t}
  /\ processedWebhooks' = processedWebhooks \ {t.id}
  /\ UNCHANGED <<now, user, pc, local, returned, calls, others>>

\* ------------------------------------------------------------ upgradePlan
\* UserService.upgradePlan(userId, newPlan): the findUnique and the test for
\* a subscriber that is on the plan already.
UpgradePlanRead(p) ==
  /\ Begin(p)
  /\ \E newPlan \in UserPlan :
       IF user = Gone
       THEN Finish(p, [NoReturn EXCEPT !.op = "upgrade", !.code = "404",
                                       !.plan = newPlan])
       ELSE IF user.plan = newPlan
       THEN Finish(p, [NoReturn EXCEPT !.op = "upgrade", !.code = "400",
                                       !.plan = newPlan])
       ELSE Goto(p, "upgrade_update", [NoLocal EXCEPT !.plan = newPlan])
  /\ UNCHANGED <<now, user, processedWebhooks, others, timers>>

\* The update of the plan column; on a row that is gone it throws (500).
UpgradePlanUpdate(p) ==
  /\ pc[p] = "upgrade_update"
  /\ user' = IF user = Gone THEN user
             ELSE [user EXCEPT !.plan = local[p].plan]
  /\ Finish(p, [NoReturn EXCEPT !.op = "upgrade",
                                 !.code = IF user = Gone THEN "500" ELSE "ok",
                                 !.plan = local[p].plan])
  /\ UNCHANGED <<now, calls, processedWebhooks, others, timers>>

\* ---------------------------------------------------- handleSuccessRedirect
\* The redirect after a checkout: the subscription is fetched once for the
\* customer's email, and with a subscription id, an ok response and an email
\* the sync is called.
SuccessRedirectStart(p) ==
  /\ Begin(p)
  /\ calls < MaxRedirects
  /\ \E sid \in SubscriptionIds \cup {""}, ok \in BOOLEAN,
        hasEmail \in BOOLEAN :
       IF sid # "" /\ ok /\ hasEmail
       THEN Goto(p, "redirect_fetch",
                 [NoLocal EXCEPT !.via = "redirect",
                                 !.subscriptionId = Some(sid)])
       ELSE Finish(p, RedirectDone)
  /\ UNCHANGED <<now, user, processedWebhooks, others, timers>>

\* The provider's answer to the fetch of the sync that the redirect awaits.
RedirectFetch(p) ==
  /\ pc[p] = "redirect_fetch"
  /\ \E r \in FetchResults :
       Fetch(p, "redirect", Val(local[p].subscriptionId), r[1], r[2])
  /\ UNCHANGED <<now, user, calls, processedWebhooks, others, timers>>

\* ---------------------------------------------------- requestCancellation
\* Variant: only the subscription id is looked at.
NoActiveSubscription_IdOnly(userData) ==
  userData = Gone \/ userData.subscriptionId = NULL

\* The test after the findUnique: no row, no subscription id, or not the
\* paid plan.
NoActiveSubscription(userData) ==
  \/ userData = Gone
  \/ userData.subscriptionId = NULL
  \/ userData.plan # "PREMIUM"

RequestCancellationRead(p) ==
  /\ Begin(p)
  /\ IF NoActiveSubscription(user)
     THEN Finish(p, [NoReturn EXCEPT !.op = "cancel",
                                     !.code = "404"])
     ELSE Goto(p, "cancel_fetch", NoLocal)
  /\ UNCHANGED <<now, user, processedWebhooks, others, timers>>

\* The provider's answer to the fetch of the subscription.
RequestCancellationFetchWith(p, ok) ==
  /\ pc[p] = "cancel_fetch"
  /\ IF ok
     THEN Goto(p, "cancel_update", NoLocal)
     ELSE Finish(p, [NoReturn EXCEPT !.op = "cancel",
                                     !.code = "400"])
  /\ UNCHANGED <<now, user, calls, processedWebhooks, others, timers>>

RequestCancellationFetch(p) ==
  \E ok \in BOOLEAN : RequestCancellationFetchWith(p, ok)

\* Variant: the request also sets the cancel-at-billing-date flag.
CancellationRow_SetsFlag(row) ==
  [row EXCEPT !.subscriptionStatus = "cancellation_requested",
              !.cancelAtBillingDate = TRUE]

\* The data of the update that marks the request.
CancellationRow(row) ==
  [row EXCEPT !.subscriptionStatus = "cancellation_requested"]

\* The update; after it the request only logs the notice for the
\* administrator and returns.  On a row that is gone the update throws and
\* the catch block answers 500.
RequestCancellationUpdate(p) ==
  /\ pc[p] = "cancel_update"
  /\ user' = IF user = Gone THEN user ELSE CancellationRow(user)
  /\ Finish(p, [NoReturn EXCEPT !.op = "cancel",
                                 !.code = IF user = Gone THEN "500"
                                          ELSE "ok"])
  /\ UNCHANGED <<now, calls, processedWebhooks, others, timers>>

\* ----------------------------------------------- getUserSubscriptionStatus
\* Variant: the sync is run only when the billing date is before now.
BillingDatePassed_Strictly(userData, t) ==
  userData.nextBillingDate # NULL /\ Val(userData.nextBillingDate) < t

\* `billingDate && billingDate <= now`.
BillingDatePassed(userData, t) == IsDue(userData.nextBillingDate, t)

\* The findUnique and the tests that follow it: no row or no subscription,
\* a billing date that has passed (the sync is awaited), or neither (the
\* provider is asked for the current state).
GetStatusRead(p) ==
  /\ Begin(p)
  /\ IF user = Gone \/ user.subscriptionId = NULL
     THEN Finish(p, [NoReturn EXCEPT !.op = "getstatus", !.code = "none"])
     ELSE IF BillingDatePassed(user, now)
          THEN Goto(p, "getstatus_sync",
                    [NoLocal EXCEPT !.via = "getstatus",
                                    !.subscriptionId = user.subscriptionId])
          ELSE Goto(p, "getstatus_fetch", NoLocal)
  /\ UNCHANGED <<now, user, processedWebhooks, others, timers>>

\* The provider's answer to the fetch of the sync that the read awaits.
GetStatusSyncWith(p, ok, sub) ==
  /\ pc[p] = "getstatus_sync"
  /\ Fetch(p, "getstatus", Val(local[p].subscriptionId), ok, sub)
  /\ UNCHANGED <<now, user, calls, processedWebhooks, others, timers>>

GetStatusSync(p) ==
  \E r \in FetchResults : GetStatusSyncWith(p, r[1], r[2])

\* The read's own fetch: the provider's state is returned as it is, or 400.
GetStatusFetch(p) ==
  /\ pc[p] = "getstatus_fetch"
  /\ \E ok \in BOOLEAN :
       Finish(p, [NoReturn EXCEPT !.op = "getstatus",
                                  !.code = IF ok THEN "ok" ELSE "400"])
  /\ UNCHANGED <<now, user, calls, processedWebhooks, others, timers>>

\* ------------------------------------------ createSubscriptionCheckoutSession
\* The tests of the caller's identity and of the configured product id, then
\* the POST that creates the checkout.
CheckoutStart(p) ==
  /\ Begin(p)
  /\ \E valid \in BOOLEAN :
       IF valid
       THEN Goto(p, "checkout_fetch", NoLocal)
       ELSE Finish(p, [NoReturn EXCEPT !.op = "checkout", !.code = "400"])
  /\ UNCHANGED <<now, user, processedWebhooks, others, timers>>

\* Status codes with which the provider rejects a checkout, and the bodies
\* of its rejections: JSON payloads, or a body that is no JSON.
RejectionStatuses == {"400", "401", "422"}
ErrorPayloads == {"invalid_product", "unauthorized"}
NotJson == "not_json"

\* The provider's response to the POST: the checkout was created (200 with
\* the session), or it was rejected with a status code and a body.
CheckoutFetchWith(p, ok) ==
  /\ pc[p] = "checkout_fetch"
  /\ IF ok
     THEN Goto(p, "checkout_json",
               [NoLocal EXCEPT !.httpStatus = "200", !.body = "session"])
     ELSE \E status \in RejectionStatuses,
             body \in ErrorPayloads \cup {NotJson} :
            Goto(p, "checkout_json",
                 [NoLocal EXCEPT !.httpStatus = status, !.body = body])
  /\ UNCHANGED <<now, user, calls, processedWebhooks, others, timers>>

CheckoutFetch(p) == \E ok \in BOOLEAN : CheckoutFetchWith(p, ok)

\* What createSubscriptionCheckoutSession returns for a response that is
\* not ok: the parsed body as the error, and the status code 400.
CheckoutFailure(l) ==
  [NoReturn EXCEPT !.op = "checkout", !.code = "400", !.error = l.body]

\* await response.json(): a body that is no JSON throws into the catch block
\* (500 with the message of the exception); otherwise response.ok decides.
CheckoutJson(p) ==
  /\ pc[p] = "checkout_json"
  /\ IF local[p].body = NotJson
     THEN Finish(p, [NoReturn EXCEPT !.op = "checkout", !.code = "500",
                                     !.error = "message"])
     ELSE IF local[p].httpStatus = "200"
          THEN Goto(p, "checkout_update", NoLocal)
          ELSE Finish(p, CheckoutFailure(local[p]))
  /\ UNCHANGED <<now, user, calls, processedWebhooks, others, timers>>

\* The data of the update after a created checkout: the updatedAt timestamp,
\* which is none of the subscriber's fields here.
CheckoutRow(row) == row

\* The update; on a row that is gone it throws into the catch block (500
\* with the message of the exception).
CheckoutUpdate(p) ==
  /\ pc[p] = "checkout_update"
  /\ IF user = Gone
     THEN /\ UNCHANGED user
          /\ Finish(p, [NoReturn EXCEPT !.op = "checkout", !.code = "500",
                                        !.error = "message"])
     ELSE /\ user' = CheckoutRow(user)
          /\ Finish(p, [NoReturn EXCEPT !.op = "checkout", !.code = "ok"])
  /\ UNCHANGED <<now, calls, processedWebhooks, others, timers>>

\* -------------------------------------------------- resetAllPremiumTokens
\* The rows of the table in the order findMany returns them.
AllIds == <<"u1", "u2", "u3">>

Row(id) == IF id = UserId THEN user ELSE others[id]

\* The where clause of the findMany: a paid plan and a reset date that is
\* not later than now.
SweepSelects(row, t) ==
  /\ row # Gone
  /\ row.plan \in {"LITE", "PRO"}
  /\ IsDue(row.tokenResetDate, t)

\* The select clause: id, plan and nextBillingDate of a row.
Selected(id) ==
  [id |-> id, plan |-> Row(id).plan,
   nextBillingDate |-> Row(id).nextBillingDate]

usersToReset(t) ==
  LET due == SelectSeq(AllIds, LAMBDA id : SweepSelects(Row(id), t))
  IN [i \in 1..Len(due) |-> Selected(due[i])]

\* nextResetDate of a loop iteration, computed before its update is awaited.
NextResetDate(list) ==
  IF list = <<>> THEN NULL
  ELSE OrElse(Head(list).nextBillingDate, getNextMonthDate(now))

\* The data of the update of one subscriber of the batch.
SweepRow(row, plan, date) ==
  [row EXCEPT
     !.inputTokensRemaining = PlanTokens(plan).input,
     !.outputTokensRemaining = PlanTokens(plan).output,
     !.tokenResetDate = date,
     !.videosProcessedThisMonth = 0,
     !.videoResetDate = date]

\* Variant: every attempt is counted.
Counted_Attempts(count, ok) == count + 1

\* updatedCount++ after an update that did not throw.
Counted(count, ok) == IF ok THEN count + 1 ELSE count

SweepResult(count) ==
  [NoReturn EXCEPT !.op = "sweep", !.code = "ok", !.usersUpdated = count]

\* The loop goes to its next subscriber, or the call returns the count.
SweepContinue(p, list, count) ==
  IF list = <<>>
  THEN Finish(p, SweepResult(count))
  ELSE Goto(p, "sweep_update",
            [NoLocal EXCEPT !.usersToReset = list,
                            !.updatedCount = count,
                            !.date = NextResetDate(list)])

\* resetAllPremiumTokens is called: `const now = new Date()` is read and the
\* findMany is sent with it.
ResetAllStart(p) ==
  /\ Begin(p)
  /\ Goto(p, "sweep_find", [NoLocal EXCEPT !.now = now])
  /\ UNCHANGED <<now, user, processedWebhooks, others, timers>>

\* The findMany of the sweep answers: the store compares the rows as they
\* are now with the date it was sent.
ResetAllFind(p) ==
  /\ pc[p] = "sweep_find"
  /\ SweepContinue(p, usersToReset(local[p].now), 0)
  /\ UNCHANGED <<now, user, calls, processedWebhooks, others, timers>>

\* The update of the subscriber at the head of the list: it is written, or
\* the update throws (the row is gone, the store is unreachable) and the
\* catch block of the loop body logs it.
ResetAllUpdateWith(p, ok) ==
  /\ pc[p] = "sweep_update"
  /\ Row(Head(local[p].usersToReset).id) = Gone => ~ok
  /\ LET u == Head(local[p].usersToReset)
         row == SweepRow(Row(u.id), u.plan, local[p].date)
     IN /\ user' = IF ok /\ u.id = UserId THEN row ELSE user
        /\ others' = IF ok /\ u.id # UserId
                     THEN [others EXCEPT ![u.id] = row]
                     ELSE others
        /\ SweepContinue(p, Tail(local[p].usersToReset),
                         Counted(local[p].updatedCount, ok))
  /\ UNCHANGED <<now, calls, processedWebhooks, timers>>

ResetAllUpdate(p) == \E ok \in BOOLEAN : ResetAllUpdateWith(p, ok)

\* ------------------------------------------------------------- deleteUser
DeleteResult(code) == [NoReturn EXCEPT !.op = "delete", !.code = code]

\* UserService.deleteUser: the findUnique of the subscriber.
DeleteUserRead(p) ==
  /\ Begin(p)
  /\ IF user = Gone
     THEN Finish(p, DeleteResult("404"))
     ELSE Goto(p, "delete_user", NoLocal)
  /\ UNCHANGED <<now, user, processedWebhooks, others, timers>>

\* prisma.user.delete: the row is removed; when it is gone already the
\* delete throws, which the catch turns into a 500.
DeleteUserDelete(p) ==
  /\ pc[p] = "delete_user"
  /\ user' = Gone
  /\ Finish(p, DeleteResult(IF user = Gone THEN "500" ELSE "ok"))
  /\ UNCHANGED <<now, calls, processedWebhooks, others, timers>>

\* AuthService.deleteUser: the account is deleted at the identity provider
\* first; an error there is a 500 and the row stays.
AuthDeleteStart(p) ==
  /\ Begin(p)
  /\ \E ok \in BOOLEAN :
       IF ok
       THEN Goto(p, "auth_delete", NoLocal)
       ELSE Finish(p, DeleteResult("500"))
  /\ UNCHANGED <<now, user, processedWebhooks, others, timers>>

\* prisma.user.deleteMany on the subscriber's firebaseUid: the row is
\* removed if there is one.
AuthDeleteMany(p) ==
  /\ pc[p] = "auth_delete"
  /\ user' = Gone
  /\ Finish(p, DeleteResult("ok"))
  /\ UNCHANGED <<now, calls, processedWebhooks, others, timers>>

\* ------------------------------------------------------------- the clock
\* Time passes; a timer that is due runs before more time passes.
Tick ==
  /\ now < MaxTime
  /\ \A t \in timers : t.at > now
  /\ now' = now + 1
  /\ UNCHANGED <<user, pc, local, returned, calls, processedWebhooks, others,
                 timers>>

\* The requests of the quota ledger.
LedgerNext ==
  \/ \E p \in Procs : ConsumeRead(p)
  \/ \E p \in Procs : ConsumeUpdate(p)
  \/ \E p \in Procs : ResetStart(p)
  \/ \E p \in Procs : ResetRead(p)
  \/ \E p \in Procs : ResetUpdate(p)
  \/ \E p \in Procs : CheckRead(p)
  \/ \E p \in Procs : CheckReread(p)
  \/ \E p \in Procs : StatusStart(p)
  \/ \E p \in Procs : StatusRead(p)
  \/ \E p \in Procs : AllocateStart(p)
  \/ \E p \in Procs : InitUpdate(p)
  \/ Tick

\* The requests of the subscription reconciler.
ReconcilerNext ==
  \/ \E p \in Procs : SyncFetch(p)
  \/ \E p \in Procs : SyncUpdate(p)
  \/ \E p \in Procs : InitRead(p)
  \/ \E p \in Procs : InitUpdate(p)
  \/ \E p \in Procs : RequestCancellationRead(p)
  \/ \E p \in Procs : RequestCancellationFetch(p)
  \/ \E p \in Procs : RequestCancellationUpdate(p)
  \/ Tick

\* Webhook deliveries, the cleanup of the dedup set, and the status reads
\* that follow them.
WebhookNext ==
  \/ \E p \in Procs : WebhookStart(p)
  \/ \E p \in Procs : WebhookFetch(p)
  \/ \E p \in Procs : SyncUpdate(p)
  \/ \E p \in Procs : InitRead(p)
  \/ \E p \in Procs : InitUpdate(p)
  \/ \E t \in timers : TimerFire(t)
  \/ \E p \in Procs : StatusStart(p)
  \/ \E p \in Procs : StatusRead(p)
  \/ \E p \in Procs : ResetRead(p)
  \/ \E p \in Procs : ResetUpdate(p)
  \/ Tick

\* The sync of a success redirect and the allocations made on request.
AllocateNext ==
  \/ \E p \in Procs : SuccessRedirectStart(p)
  \/ \E p \in Procs : RedirectFetch(p)
  \/ \E p \in Procs : SyncUpdate(p)
  \/ \E p \in Procs : InitRead(p)
  \/ \E p \in Procs : AllocateStart(p)
  \/ \E p \in Procs : InitUpdate(p)
  \/ Tick

\* The billing cycle of a subscriber whose plan is changed on request:
\* consumption and resets.
CycleNext ==
  \/ \E p \in Procs : UpgradePlanRead(p)
  \/ \E p \in Procs : UpgradePlanUpdate(p)
  \/ \E p \in Procs : ConsumeRead(p)
  \/ \E p \in Procs : ConsumeUpdate(p)
  \/ \E p \in Procs : ResetStart(p)
  \/ \E p \in Procs : ResetUpdate(p)
  \/ Tick

\* Subscribers a summary request can find: a new account, an account of a
\* plan after initializePlanTokens with no video or with all the videos of
\* the plan saved in the month, and a FREE account that has consumed the
\* largest usage from its pools.
SummaryRow(plan, n, used) ==
  [Decrement(InitRow([NewUser EXCEPT !.plan = plan], plan,
                     getNextMonthDate(0)), used)
     EXCEPT !.videosProcessedThisMonth = n]

SummaryRows ==
  {NewUser, SummaryRow("FREE", 0, Usage(MaxUse, MaxUse))} \cup
  UNION {{SummaryRow(plan, n, Usage(0, 0)) : n \in {0, VideoLimit(plan)}} :
           plan \in UserPlan}

InitSummary ==
  /\ now = 0
  /\ user \in SummaryRows
  /\ pc = [p \in Procs |-> "idle"]
  /\ local = [p \in Procs |-> NoLocal]
  /\ returned = NoReturn
  /\ calls = 0
  /\ processedWebhooks = {}
  /\ timers = {}
  /\ others = [id \in OtherIds |-> NewUser]

\* Metered summary requests with the lazy resets of their checks.
SummaryNext ==
  \/ \E p \in Procs : GenerateStart(p)
  \/ \E p \in Procs : PreflightRead(p)
  \/ \E p \in Procs : PreflightReread(p)
  \/ \E p \in Procs : ResetRead(p)
  \/ \E p \in Procs : ResetUpdate(p)
  \/ \E p \in Procs : FindSummary(p)
  \/ \E p \in Procs : OpenAiUser(p)
  \/ \E p \in Procs : AiCall(p)
  \/ \E p \in Procs : ChunkDelay(p)
  \/ \E p \in Procs : AiTrackUsage(p)
  \/ \E p \in Procs : AiUser(p)
  \/ \E p \in Procs : AiConsumeRead(p)
  \/ \E p \in Procs : AiConsumeUpdate(p)
  \/ Tick

SpecSummary == InitSummary /\ [][SummaryNext]_vars

\* Subscribers a save request can find: an account of a plan after
\* initializePlanTokens with any number of saved videos up to its limit.
SaveRows ==
  UNION {{SummaryRow(plan, n, Usage(0, 0)) : n \in 0..VideoLimit(plan)} :
           plan \in UserPlan}

InitSave ==
  /\ now = 0
  /\ user \in SaveRows
  /\ pc = [p \in Procs |-> "idle"]
  /\ local = [p \in Procs |-> NoLocal]
  /\ returned = NoReturn
  /\ calls = 0
  /\ processedWebhooks = {}
  /\ timers = {}
  /\ others = [id \in OtherIds |-> NewUser]

\* Save requests of one subscriber.
SaveNext ==
  \/ \E p \in Procs : SaveStart(p)
  \/ \E p \in Procs : SaveFind(p)
  \/ \E p \in Procs : SaveUpdate(p)
  \/ \E p \in Procs : SaveQuota(p)
  \/ \E p \in Procs : SaveExisting(p)
  \/ \E p \in Procs : SaveCreate(p)
  \/ \E p \in Procs : SaveIncrement(p)
  \/ Tick

SpecSave == InitSave /\ [][SaveNext]_vars

\* The deletions of the subscriber's account.
DeleteNext ==
  \/ \E p \in Procs : DeleteUserRead(p)
  \/ \E p \in Procs : DeleteUserDelete(p)
  \/ \E p \in Procs : AuthDeleteStart(p)
  \/ \E p \in Procs : AuthDeleteMany(p)

\* A subscriber at the start of a cycle: a plan of the ledger with its full
\* allocation and the reset date one month ahead.
BoundaryRow(plan) ==
  InitRow([NewUser EXCEPT !.plan = plan], plan, getNextMonthDate(0))

\* A subscriber as the sync of an active subscription leaves it: the paid
\* plan, the provider's billing date, and the allocation of
\* initializePremiumTokens that ends at that date.
SyncedRow ==
  InitRow([NewUser EXCEPT !.plan = "PREMIUM",
                          !.subscriptionStatus = "active",
                          !.subscriptionId = Some("sub_1"),
                          !.nextBillingDate = getNextMonthDate(0)],
          "PRO", getNextMonthDate(0))

BoundaryRows == {BoundaryRow(plan) : plan \in UserPlan} \cup {SyncedRow}

InitBoundary ==
  /\ now = 0
  /\ user \in BoundaryRows
  /\ pc = [p \in Procs |-> "idle"]
  /\ local = [p \in Procs |-> NoLocal]
  /\ returned = NoReturn
  /\ calls = 0
  /\ processedWebhooks = {}
  /\ timers = {}
  /\ others \in {[id \in OtherIds |-> BoundaryRow(plan)] :
                   plan \in {"FREE", "LITE"}}

\* The sweep, the checks with their lazy resets and the consumption around
\* the end of a cycle.
BoundaryNext ==
  \/ \E p \in Procs : ResetAllStart(p)
  \/ \E p \in Procs : ResetAllFind(p)
  \/ \E p \in Procs : ResetAllUpdate(p)
  \/ \E p \in Procs : CheckRead(p)
  \/ \E p \in Procs : CheckReread(p)
  \/ \E p \in Procs : ResetRead(p)
  \/ \E p \in Procs : ResetUpdate(p)
  \/ \E p \in Procs : ConsumeRead(p)
  \/ \E p \in Procs : ConsumeUpdate(p)
  \/ Tick

SpecBoundary == InitBoundary /\ [][BoundaryNext]_vars

\* The resets of a subscriber that a success redirect has synced and whose
\* plan column may have been changed since.
GraceNext ==
  \/ \E p \in Procs : SuccessRedirectStart(p)
  \/ \E p \in Procs : RedirectFetch(p)
  \/ \E p \in Procs : SyncUpdate(p)
  \/ \E p \in Procs : InitRead(p)
  \/ \E p \in Procs : InitUpdate(p)
  \/ \E p \in Procs : UpgradePlanRead(p)
  \/ \E p \in Procs : UpgradePlanUpdate(p)
  \/ \E p \in Procs : CheckRead(p)
  \/ \E p \in Procs : CheckReread(p)
  \/ \E p \in Procs : ResetRead(p)
  \/ \E p \in Procs : ResetUpdate(p)
  \/ \E p \in Procs : ResetAllStart(p)
  \/ \E p \in Procs : ResetAllFind(p)
  \/ \E p \in Procs : ResetAllUpdate(p)
  \/ Tick

SpecGrace == Init /\ [][GraceNext]_vars

\* Syncs of a subscriber that consumes between them.
RenewNext ==
  \/ \E p \in Procs : SyncFetch(p)
  \/ \E p \in Procs : SyncUpdate(p)
  \/ \E p \in Procs : InitRead(p)
  \/ \E p \in Procs : InitUpdate(p)
  \/ \E p \in Procs : ConsumeRead(p)
  \/ \E p \in Procs : ConsumeUpdate(p)
  \/ Tick

SpecRenew == Init /\ [][RenewNext]_vars

\* Checkout sessions of a subscriber with allocations and consumption.
CheckoutNext ==
  \/ \E p \in Procs : CheckoutStart(p)
  \/ \E p \in Procs : CheckoutFetch(p)
  \/ \E p \in Procs : CheckoutJson(p)
  \/ \E p \in Procs : CheckoutUpdate(p)
  \/ \E p \in Procs : AllocateStart(p)
  \/ \E p \in Procs : InitUpdate(p)
  \/ \E p \in Procs : ConsumeRead(p)
  \/ \E p \in Procs : ConsumeUpdate(p)
  \/ Tick

SpecCheckout == Init /\ [][CheckoutNext]_vars

\* Estimates of texts of all lengths.
EstimateNext ==
  \/ \E p \in Procs : EstimateCall(p)
  \/ Tick

SpecEstimate == Init /\ [][EstimateNext]_vars

\* A table whose other subscribers are new accounts, or are on a paid plan
\* with a reset date that has come.
InitFrame ==
  /\ now = 0
  /\ user = NewUser
  /\ pc = [p \in Procs |-> "idle"]
  /\ local = [p \in Procs |-> NoLocal]
  /\ returned = NoReturn
  /\ calls = 0
  /\ processedWebhooks = {}
  /\ timers = {}
  /\ \E plan \in {"FREE", "LITE"} :
       others = [id \in OtherIds |->
                   IF plan = "FREE" THEN NewUser
                   ELSE [NewUser EXCEPT !.plan = plan,
                                        !.tokenResetDate = Some(0)]]

\* The operations of the ledger and of the reconciler on a subscriber that
\* webhook deliveries bring in step with the provider, the cleanup of the
\* dedup set, and the plan changes made on request.
FrameNext ==
  \/ \E p \in Procs : WebhookStart(p)
  \/ \E p \in Procs : WebhookFetch(p)
  \/ \E t \in timers : TimerFire(t)
  \/ \E p \in Procs : SyncUpdate(p)
  \/ \E p \in Procs : InitRead(p)
  \/ \E p \in Procs : InitUpdate(p)
  \/ \E p \in Procs : UpgradePlanRead(p)
  \/ \E p \in Procs : UpgradePlanUpdate(p)
  \/ \E p \in Procs : RequestCancellationRead(p)
  \/ \E p \in Procs : RequestCancellationFetch(p)
  \/ \E p \in Procs : RequestCancellationUpdate(p)
  \/ \E p \in Procs : CheckoutStart(p)
  \/ \E p \in Procs : CheckoutFetch(p)
  \/ \E p \in Procs : CheckoutJson(p)
  \/ \E p \in Procs : CheckoutUpdate(p)
  \/ \E p \in Procs : AllocateStart(p)
  \/ \E p \in Procs : CheckRead(p)
  \/ \E p \in Procs : CheckReread(p)
  \/ \E p \in Procs : ConsumeRead(p)
  \/ \E p \in Procs : ConsumeUpdate(p)
  \/ \E p \in Procs : ResetStart(p)
  \/ \E p \in Procs : ResetRead(p)
  \/ \E p \in Procs : ResetUpdate(p)
  \/ \E p \in Procs : ResetAllStart(p)
  \/ \E p \in Procs : ResetAllFind(p)
  \/ \E p \in Procs : ResetAllUpdate(p)
  \/ Tick

SpecFrame == InitFrame /\ [][FrameNext]_vars

\* The subscription-status reads of a subscriber that a success redirect
\* has synced.
StatusNext ==
  \/ \E p \in Procs : SuccessRedirectStart(p)
  \/ \E p \in Procs : RedirectFetch(p)
  \/ \E p \in Procs : GetStatusRead(p)
  \/ \E p \in Procs : GetStatusSync(p)
  \/ \E p \in Procs : GetStatusFetch(p)
  \/ \E p \in Procs : SyncUpdate(p)
  \/ \E p \in Procs : InitRead(p)
  \/ \E p \in Procs : InitUpdate(p)
  \/ Tick

SpecStatus == Init /\ [][StatusNext]_vars

\* Rows the other subscribers can have when a sweep finds them: a plan and
\* the reset date of their last allocation, nothing left of the allocation.
OtherRows ==
  {[NewUser EXCEPT !.plan = plan, !.tokenResetDate = date] :
     plan \in UserPlan, date \in {NULL} \cup {Some(d) : d \in 0..MaxTime}}

InitSweep ==
  /\ now = 0
  /\ user = NewUser
  /\ pc = [p \in Procs |-> "idle"]
  /\ local = [p \in Procs |-> NoLocal]
  /\ returned = NoReturn
  /\ calls = 0
  /\ processedWebhooks = {}
  /\ timers = {}
  /\ others \in [OtherIds -> OtherRows]

\* The sweep over the table, and the plan changes and resets of the
\* subscriber the requests are about.
SweepNext ==
  \/ \E p \in Procs : ResetAllStart(p)
  \/ \E p \in Procs : ResetAllFind(p)
  \/ \E p \in Procs : ResetAllUpdate(p)
  \/ \E p \in Procs : UpgradePlanRead(p)
  \/ \E p \in Procs : UpgradePlanUpdate(p)
  \/ \E p \in Procs : ResetStart(p)
  \/ \E p \in Procs : ResetUpdate(p)
  \/ Tick

SpecSweep == InitSweep /\ [][SweepNext]_vars

\* The reads of the ledger on a subscriber that a success redirect has
\* synced.
ReadsNext ==
  \/ \E p \in Procs : SuccessRedirectStart(p)
  \/ \E p \in Procs : RedirectFetch(p)
  \/ \E p \in Procs : SyncUpdate(p)
  \/ \E p \in Procs : InitRead(p)
  \/ \E p \in Procs : InitUpdate(p)
  \/ \E p \in Procs : StatusStart(p)
  \/ \E p \in Procs : StatusRead(p)
  \/ \E p \in Procs : CheckRead(p)
  \/ \E p \in Procs : CheckReread(p)
  \/ \E p \in Procs : ResetRead(p)
  \/ \E p \in Procs : ResetUpdate(p)
  \/ Tick

Next ==
  \/ LedgerNext
  \/ ReconcilerNext
  \/ WebhookNext
  \/ AllocateNext
  \/ CycleNext
  \/ SweepNext
  \/ StatusNext
  \/ FrameNext
  \/ EstimateNext
  \/ SummaryNext
  \/ CheckoutNext
  \/ BoundaryNext
  \/ GraceNext
  \/ RenewNext
  \/ SaveNext
  \/ DeleteNext
  \/ ReadsNext

Spec == Init /\ [][Next]_vars

SpecLedger == Init /\ [][LedgerNext]_vars

SpecReconciler == Init /\ [][ReconcilerNext]_vars

SpecWebhook == Init /\ [][WebhookNext]_vars

SpecAllocate == Init /\ [][AllocateNext]_vars

SpecCycle == Init /\ [][CycleNext]_vars

\* The steps a request that has started takes when its await resolves.
ReadsStep(p) ==
  \/ RedirectFetch(p)
  \/ SyncUpdate(p)
  \/ InitRead(p)
  \/ InitUpdate(p)
  \/ StatusRead(p)
  \/ CheckReread(p)
  \/ ResetRead(p)
  \/ ResetUpdate(p)

\* Every await of a started request resolves: the store and the provider
\* answer, and the event loop runs the continuation.
SpecReads ==
  /\ Init
  /\ [][ReadsNext]_vars
  /\ \A p \in Procs : WF_vars(ReadsStep(p))

\* ================================================================ claims

\* C1: inputTokensRemaining >= 0 and outputTokensRemaining >= 0 in every
\* reachable state, whatever consume calls run and however they interleave.
C1_NonNegative ==
  /\ user.inputTokensRemaining >= 0
  /\ user.outputTokensRemaining >= 0

\* C2: of two consume calls that run concurrently at most one succeeds when
\* their combined amount exceeds the remaining balance in either pool: two
\* calls that have both passed the check and are both about to decrement
\* never ask together for more than the row holds.
C2_AtMostOneSucceeds ==
  \A p, q \in Procs :
    (p # q /\ pc[p] = "consume_update" /\ pc[q] = "consume_update") =>
      /\ local[p].inputTokens + local[q].inputTokens
           <= user.inputTokensRemaining
      /\ local[p].outputTokens + local[q].outputTokens
           <= user.outputTokensRemaining

\* The amounts of the consume call that slot p has just started.
ConsumeRequest(p) == IF pc'[p] = "consume_update" THEN local'[p] ELSE returned'

\* C3: a consume call whose requested input exceeds inputTokensRemaining or
\* whose requested output exceeds outputTokensRemaining (as the call reads
\* them) fails with 402 and leaves the row unchanged, and no call that
\* fails with 402 changes the row.
C3_InsufficientLeavesBalances ==
  [][\A p \in Procs :
       ConsumeRead(p) =>
         /\ (\/ user.inputTokensRemaining < ConsumeRequest(p).inputTokens
             \/ user.outputTokensRemaining < ConsumeRequest(p).outputTokens)
            => (/\ pc'[p] = "idle"
                /\ returned'.op = "consume"
                /\ returned'.code = "402")
         /\ (pc'[p] = "idle" /\ returned'.code = "402") => user' = user]_vars

\* C3 witness: a request for a positive amount of both pools was refused
\* while the input pool alone would have covered it, and the input pool
\* still holds what it held.
C3_Witness ==
  /\ returned.op = "consume"
  /\ returned.code = "402"
  /\ returned.inputTokens > 0
  /\ returned.outputTokens > 0
  /\ user.inputTokensRemaining >= returned.inputTokens
  /\ user.outputTokensRemaining < returned.outputTokens
  /\ \A p \in Procs : pc[p] = "idle"

\* C4: a successful consume lowers inputTokensRemaining by exactly the used
\* input and outputTokensRemaining by exactly the used output, and the
\* status it returns carries the balances after the decrement.
C4_ExactDecrement ==
  [][\A p \in Procs :
       ConsumeUpdate(p) =>
         /\ user'.inputTokensRemaining
              = user.inputTokensRemaining - local[p].inputTokens
         /\ user'.outputTokensRemaining
              = user.outputTokensRemaining - local[p].outputTokens
         /\ returned'.op = "consume"
         /\ returned'.code = "ok"
         /\ returned'.inputTokensRemaining = user'.inputTokensRemaining
         /\ returned'.outputTokensRemaining = user'.outputTokensRemaining]_vars

\* C4 witness: a consume of a positive amount of both pools has returned and
\* the row holds the balances it reported.
C4_Witness ==
  /\ returned.op = "consume"
  /\ returned.code = "ok"
  /\ returned.inputTokens > 0
  /\ returned.outputTokens > 0
  /\ returned.inputTokensRemaining = user.inputTokensRemaining
  /\ returned.outputTokensRemaining = user.outputTokensRemaining
  /\ user.inputTokensRemaining >= 0

\* C5: every request that reads the balance to decide (consume, and
\* checkAvailability and getTokenStatus when they answer from their first
\* read) decides on a row whose tokenResetDate is null or later than now; a
\* due reset is performed before the balance is used.
C5_ResetBeforeUse ==
  [][\A p \in Procs :
       (\/ ConsumeRead(p)
        \/ (CheckRead(p) /\ pc'[p] = "idle")
        \/ ((StatusStart(p) \/ StatusRead(p)) /\ pc'[p] = "idle"))
       => ~IsDue(user.tokenResetDate, now)]_vars

\* C6: in every reachable state plan = FREE implies that subscriptionId is
\* null, also after a sync that classified the subscriber as FREE.
C6_FreeHasNoSubscription ==
  user.plan = "FREE" => user.subscriptionId = NULL

\* C7: each balance is at most the allocation of the subscriber's current
\* plan (the FREE limits on FREE, what the sync allocates on the paid plan).
C7_QuotaTracksPlan ==
  LET limit == IF user.plan = "FREE" THEN tokens.free ELSE tokens.pro
  IN /\ user.inputTokensRemaining <= limit.input
     /\ user.outputTokensRemaining <= limit.output

\* C8: for a response with status active and the cancel flag set, the sync
\* writes status "cancelling" and the paid plan when next_billing_date is
\* later than the sync's now, and status "expired" and plan FREE otherwise.
C8_CancellingGrace ==
  [][\A p \in Procs :
       (/\ SyncUpdate(p)
        /\ local[p].dodoStatus = Some("active")
        /\ local[p].cancelAtNext)
       => IF /\ local[p].nextBilling # NULL
             /\ Val(local[p].nextBilling) > local[p].now
          THEN /\ user'.subscriptionStatus = "cancelling"
               /\ user'.plan = "PREMIUM"
          ELSE /\ user'.subscriptionStatus = "expired"
               /\ user'.plan = "FREE"]_vars

\* C8 witness: one sync has left the subscriber cancelling on the paid plan,
\* and a later sync of an active, cancel-flagged response whose billing date
\* has passed is about to write "expired".
C8_Witness ==
  /\ user.subscriptionStatus = "cancelling"
  /\ user.plan = "PREMIUM"
  /\ user.cancelAtBillingDate
  /\ \E p \in Procs :
       /\ pc[p] = "sync_update"
       /\ local[p].dodoStatus = Some("active")
       /\ local[p].cancelAtNext
       /\ local[p].dbStatus = "expired"
       /\ local[p].dbPlan = "FREE"

\* C9: for a response with status active and no cancel flag, the sync writes
\* the paid plan and status "active", whatever the status was before.
C9_ActiveSync ==
  [][\A p \in Procs :
       (/\ SyncUpdate(p)
        /\ local[p].dodoStatus = Some("active")
        /\ ~local[p].cancelAtNext)
       => /\ user'.plan = "PREMIUM"
          /\ user'.subscriptionStatus = "active"]_vars

\* C9 witness: the last request that returned was a successful
\* requestCancellation, and a sync of an active response has since written
\* "active" over it and is about to allocate.
C9_Witness ==
  /\ returned.op = "cancel"
  /\ returned.code = "ok"
  /\ user.subscriptionStatus = "active"
  /\ user.plan = "PREMIUM"
  /\ \E p \in Procs :
       /\ pc[p] = "init_read"
       /\ local[p].dodoStatus = Some("active")
       /\ ~local[p].cancelAtNext

\* C10: for a response whose status is not active the sync writes plan FREE,
\* status "expired" when the provider says cancelled and the provider's own
\* status string otherwise; and every response that was fetched is
\* classified and written (no fetched response ends in the catch block).
C10_InactiveSync ==
  [][\A p \in Procs :
       /\ (SyncUpdate(p) /\ local[p].dodoStatus # Some("active"))
          => /\ user'.plan = "FREE"
             /\ user'.subscriptionStatus =
                  IF local[p].dodoStatus = Some("cancelled") THEN "expired"
                  ELSE Val(local[p].dodoStatus)
       /\ SyncFetch(p) => ~(pc'[p] = "idle" /\ returned'.thrown)]_vars

\* The only request so far was a webhook delivery whose sync found the
\* provider's subscription active (no cancel flag) for the new, FREE
\* subscriber, and that delivery has been answered.
UpgradedByWebhook ==
  /\ calls = 1
  /\ \A p \in Procs : pc[p] = "idle"
  /\ returned.op = "webhook"
  /\ user.subscriptionStatus = "active"

\* C11 (as stated): after such a delivery the plan is the paid tier,
\* tokenResetDate equals the provider's next_billing_date (the date the same
\* sync stored as nextBillingDate), and getTokenStatus returns the paid
\* tier's full allocation.
C11_WebhookUpgrade ==
  [][\A p \in Procs :
       (UpgradedByWebhook /\ StatusStart(p)) =>
         /\ user.plan = "PREMIUM"
         /\ user.tokenResetDate = user.nextBillingDate
         /\ pc'[p] = "idle"
         /\ returned'.op = "status"
         /\ returned'.inputTokensRemaining = TokensProInput
         /\ returned'.outputTokensRemaining = TokensProOutput]_vars

\* C11 (amended): after such a delivery the plan is the paid tier, both
\* balances are the paid tier's limits, tokenResetDate is the provider's
\* next_billing_date when the provider reports one and one month after the
\* sync otherwise, and getTokenStatus returns that allocation when
\* tokenResetDate is later than now.
C11_WebhookUpgradeDated ==
  [][\A p \in Procs :
       (UpgradedByWebhook /\ StatusStart(p)) =>
         /\ user.plan = "PREMIUM"
         /\ user.inputTokensRemaining = TokensProInput
         /\ user.outputTokensRemaining = TokensProOutput
         /\ IF user.nextBillingDate # NULL
            THEN user.tokenResetDate = user.nextBillingDate
            ELSE \E t \in 0..now : user.tokenResetDate = Some(t + MonthLen)
         /\ (user.tokenResetDate # NULL /\ Val(user.tokenResetDate) > now)
            => /\ pc'[p] = "idle"
               /\ returned'.op = "status"
               /\ returned'.inputTokensRemaining = TokensProInput
               /\ returned'.outputTokensRemaining = TokensProOutput
               /\ returned'.tokenResetDate = user.tokenResetDate]_vars

\* C11 witness: the status read that followed the delivery has returned the
\* paid allocation, and the reset date is the provider's billing date.
C11_Witness ==
  /\ calls = 2
  /\ returned.op = "status"
  /\ returned.inputTokensRemaining = TokensProInput
  /\ returned.outputTokensRemaining = TokensProOutput
  /\ user.plan = "PREMIUM"
  /\ user.subscriptionStatus = "active"
  /\ user.nextBillingDate # NULL
  /\ user.tokenResetDate = user.nextBillingDate
  /\ returned.tokenResetDate = user.nextBillingDate

\* C12: a delivery whose id is in the dedup set is answered with success in
\* the same step, without calling the sync and without changing the
\* subscriber or the set; a delivery whose id is not in the set (and that
\* names a subscription) enters the set and calls the sync; and an id leaves
\* the set only when its cleanup timer fires (the end of the window).
C12_DuplicateSkipped ==
  [][/\ (calls' # calls) =>
          \A p \in Procs, id \in WebhookIds :
            /\ id \in processedWebhooks =>
                 \A hasIds \in BOOLEAN :
                   WebhookWith(p, id, hasIds) =>
                     /\ pc'[p] = "idle"
                     /\ returned' = WebhookSuccess
                     /\ user' = user
                     /\ processedWebhooks' = processedWebhooks
            /\ id \notin processedWebhooks =>
                 (WebhookWith(p, id, TRUE) =>
                    /\ pc'[p] = "webhook_fetch"
                    /\ id \in processedWebhooks')
     /\ (processedWebhooks' # processedWebhooks) =>
          \A id \in WebhookIds :
            (id \in processedWebhooks /\ id \notin processedWebhooks')
              => \E t \in timers : t.id = id /\ TimerFire(t)]_vars

\* C12 witness: of two deliveries of one id the first is still waiting for
\* the provider while the other has been answered, and the subscriber is
\* as it was.
C12_Witness ==
  /\ calls = 2
  /\ pc["r1"] = "webhook_fetch"
  /\ pc["r2"] = "idle"
  /\ local["r1"].webhookId = Some("wh_1")
  /\ processedWebhooks = {"wh_1"}
  /\ returned.op = "webhook"
  /\ user = NewUser

\* C13: when the provider fetch of the sync started by handleWebhook fails,
\* the handler reports failure and the delivery id is no longer in the set.
C13_FailureReleasesDelivery ==
  [][\A p \in Procs :
       WebhookFetchWith(p, FALSE, NoBody) =>
         /\ returned'.op = "webhook"
         /\ returned'.code = "500"
         /\ Delivery(p) \notin processedWebhooks']_vars

\* The provider's response that the sync of slot p is about to write.
Fetched(p) ==
  [status |-> local[p].dodoStatus,
   cancel_at_next_billing_date |-> local[p].cancelAtNext,
   next_billing_date |-> local[p].nextBilling]

\* C14: every sync that a delivery starts and whose fetch succeeds writes
\* the row, and what it writes as plan and status is the classification of
\* the response it fetched, whatever the row held.
C14_LastSyncWins ==
  [][\A p \in Procs :
       /\ \A sub \in DodoResponses :
            WebhookFetchWith(p, TRUE, sub) => pc'[p] = "sync_update"
       /\ (SyncUpdate(p) /\ local[p].via = "webhook") =>
            /\ user'.plan = Classify(Fetched(p), local[p].now).dbPlan
            /\ user'.subscriptionStatus
                 = Classify(Fetched(p), local[p].now).dbStatus]_vars

\* C15: once the syncs have finished, the billing date and the quota
\* allocation on the row come from the same sync: on a paid subscriber with
\* a nextBillingDate, tokenResetDate is that date (as it is after any one
\* sync that ran alone).
C15_SyncsDoNotMix ==
  (/\ \A p \in Procs : pc[p] = "idle"
   /\ user.plan = "PREMIUM"
   /\ user.nextBillingDate # NULL)
  => user.tokenResetDate = user.nextBillingDate

\* C16: a sync whose provider fetch fails returns null in that step and
\* leaves every field of the subscriber (plan, subscriptionStatus,
\* subscriptionId, nextBillingDate, cancelAtBillingDate, balances) as it was.
C16_FetchFailureChangesNothing ==
  [][\A p \in Procs, sid \in SubscriptionIds :
       SyncFetchWith(p, sid, FALSE, NoBody) =>
         /\ pc'[p] = "idle"
         /\ returned'.op = "sync"
         /\ returned'.code = "null"
         /\ user' = user]_vars

\* C16 witness: a sync has made the subscriber paid, a second sync's fetch
\* failed, and the subscriber still holds what the first one wrote.
C16_Witness ==
  /\ calls = 2
  /\ \A p \in Procs : pc[p] = "idle"
  /\ returned.op = "sync"
  /\ returned.code = "null"
  /\ ~returned.thrown
  /\ user.plan = "PREMIUM"
  /\ user.subscriptionStatus = "active"
  /\ user.subscriptionId # NULL
  /\ user.inputTokensRemaining = TokensProInput

\* The configured limits of a plan, pool by pool.
InputLimit(plan) ==
  IF plan = "LITE" THEN TokensLiteInput
  ELSE IF plan = "PRO" THEN TokensProInput ELSE TokensFreeInput

OutputLimit(plan) ==
  IF plan = "LITE" THEN TokensLiteOutput
  ELSE IF plan = "PRO" THEN TokensProOutput ELSE TokensFreeOutput

\* C17: allocate(plan, cycleEndDate?) resolves the reset date as cycleEndDate
\* if given, else the subscriber's nextBillingDate, else one month from now,
\* and its write sets both balances to the plan's limits, tokenResetDate and
\* videoResetDate to that date and videosProcessedThisMonth to 0, whatever
\* the row held, and changes nothing else.
C17_AllocateOverwrites ==
  [][\A p \in Procs :
       /\ \A plan \in UserPlan, end \in BillingDates :
            AllocateWith(p, plan, end) =>
              /\ local'[p].plan = plan
              /\ local'[p].date =
                   IF end # NULL THEN end
                   ELSE IF user.nextBillingDate # NULL
                        THEN user.nextBillingDate
                        ELSE Some(now + MonthLen)
       /\ (InitUpdate(p) /\ local[p].caller = "allocate") =>
            user' = [user EXCEPT
                       !.inputTokensRemaining = InputLimit(local[p].plan),
                       !.outputTokensRemaining = OutputLimit(local[p].plan),
                       !.tokenResetDate = local[p].date,
                       !.videosProcessedThisMonth = 0,
                       !.videoResetDate = local[p].date]]_vars

\* C17 witness: a subscriber that a sync had given the paid allocation and a
\* nextBillingDate has been allocated the FREE limits without a cycle end
\* date, and the reset date is the nextBillingDate.
C17_Witness ==
  /\ returned.op = "allocate"
  /\ \A p \in Procs : pc[p] = "idle"
  /\ user.plan = "PREMIUM"
  /\ user.nextBillingDate # NULL
  /\ user.inputTokensRemaining = TokensFreeInput
  /\ user.outputTokensRemaining = TokensFreeOutput
  /\ user.tokenResetDate = user.nextBillingDate
  /\ user.videoResetDate = user.nextBillingDate

\* C18: checkAvailability answers sufficient = (inputRemaining >= neededInput
\* and outputRemaining >= neededOutput) and exhausted = (inputRemaining <= 0
\* or outputRemaining <= 0) on the row it reads last (after the lazy reset
\* when the reset date is due, which it performs before answering), reports
\* that row's balances and reset date, and writes nothing but the reset.
C18_AvailabilityFlags ==
  [][\A p \in Procs :
       /\ ((CheckRead(p) \/ CheckReread(p)) /\ pc'[p] = "idle") =>
            /\ returned'.op = "check"
            /\ returned'.hasEnoughTokens
                 = (/\ user.inputTokensRemaining >= returned'.inputTokens
                    /\ user.outputTokensRemaining >= returned'.outputTokens)
            /\ returned'.isTokensExhausted
                 = (\/ user.inputTokensRemaining <= 0
                    \/ user.outputTokensRemaining <= 0)
            /\ returned'.inputTokensRemaining = user.inputTokensRemaining
            /\ returned'.outputTokensRemaining = user.outputTokensRemaining
            /\ returned'.tokenResetDate = user.tokenResetDate
            /\ user' = user
       /\ CheckRead(p) =>
            /\ user' = user
            /\ (pc'[p] = "reset_read")
                 = (user.tokenResetDate # NULL
                    /\ Val(user.tokenResetDate) <= now)
       /\ (ResetUpdate(p) /\ local[p].caller = "check") =>
            /\ pc'[p] = "check_reread"
            /\ user' = [user EXCEPT
                          !.inputTokensRemaining = user'.inputTokensRemaining,
                          !.outputTokensRemaining
                             = user'.outputTokensRemaining,
                          !.tokenResetDate = user'.tokenResetDate,
                          !.videosProcessedThisMonth = 0,
                          !.videoResetDate = user'.tokenResetDate]]_vars

\* C18 witness: a check for a positive amount of both pools has answered
\* "sufficient" on the balances of a reset made after the clock moved.
C18_Witness ==
  /\ now > 0
  /\ returned.op = "check"
  /\ returned.hasEnoughTokens
  /\ ~returned.isTokensExhausted
  /\ returned.inputTokens > 0
  /\ returned.outputTokens > 0
  /\ returned.tokenResetDate = Some(now + MonthLen)
  /\ returned.inputTokensRemaining = user.inputTokensRemaining
  /\ user.tokenResetDate = Some(now + MonthLen)

\* The last request that finished was allocate(FREE) and none is running.
AfterAllocateFree(p) ==
  /\ returned.op = "allocate"
  /\ returned.plan = "FREE"
  /\ \A q \in Procs \ {p} : pc[q] = "idle"

\* C19: checkAvailability(0,0) that runs right after allocate(FREE), with no
\* other request in between, answers sufficient = true and exhausted =
\* false (the FREE limits of the configuration are greater than 0), whether
\* it answers from its first read or after a lazy reset.
C19_FreshFreeIsAvailable ==
  [][\A p \in Procs :
       (/\ AfterAllocateFree(p)
        /\ CheckRead(p) \/ CheckReread(p)
        /\ pc'[p] = "idle"
        /\ returned'.inputTokens = 0
        /\ returned'.outputTokens = 0)
       => /\ returned'.hasEnoughTokens
          /\ ~returned'.isTokensExhausted]_vars

\* C19 witness: allocate(FREE) on the new subscriber (no nextBillingDate),
\* then checkAvailability(0,0), which has answered on the FREE allocation.
C19_Witness ==
  /\ calls = 2
  /\ returned.op = "check"
  /\ returned.inputTokens = 0
  /\ returned.outputTokens = 0
  /\ returned.hasEnoughTokens
  /\ ~returned.isTokensExhausted
  /\ returned.inputTokensRemaining = TokensFreeInput
  /\ returned.outputTokensRemaining = TokensFreeOutput
  /\ user.nextBillingDate = NULL

\* C20: the write of resetCycle sets both balances to the limits of the
\* plan it read, whatever was consumed before; and a run that follows a
\* run on the same stored plan, with nothing finished or running in
\* between, leaves the balances as the first run left them.
C20_ResetIdempotent ==
  [][\A p \in Procs :
       (ResetUpdate(p) /\ local[p].caller = "reset") =>
         /\ user'.inputTokensRemaining = InputLimit(local[p].plan)
         /\ user'.outputTokensRemaining = OutputLimit(local[p].plan)
         /\ (/\ returned.op = "reset"
             /\ returned.plan = user.plan
             /\ \A q \in Procs \ {p} : pc[q] = "idle"
             /\ local[p].plan = user.plan)
            => /\ user'.inputTokensRemaining = user.inputTokensRemaining
               /\ user'.outputTokensRemaining
                    = user.outputTokensRemaining]_vars

\* C20 witness: the plan was changed to LITE, then resetCycle ran twice, and
\* the balances are the LITE limits.
C20_Witness ==
  /\ calls = 3
  /\ \A p \in Procs : pc[p] = "idle"
  /\ returned.op = "reset"
  /\ user.plan = "LITE"
  /\ user.inputTokensRemaining = TokensLiteInput
  /\ user.outputTokensRemaining = TokensLiteOutput
\* C21: every getTokenStatus and every checkTokenAvailability call that has
\* gone into the lazy reset comes back to its caller, whatever the
\* subscriber's dates are (a call that needs no reset answers in the step
\* that starts it).
C21_ReadsTerminate ==
  \A p \in Procs :
    (local[p].caller \in {"status", "check"}) ~> (pc[p] = "idle")

\* C22: in the loop of the sweep an update that throws changes no row and
\* no count, an update that succeeds refills that subscriber and adds one to
\* the count, and after either the loop goes on with the rest of the list;
\* when the list is done the call succeeds and returns the count.
C22_SweepSurvivesFailure ==
  [][\A p \in Procs, ok \in BOOLEAN :
       ResetAllUpdateWith(p, ok) =>
         LET u == Head(local[p].usersToReset)
             rest == Tail(local[p].usersToReset)
             before == local[p].updatedCount
             after == IF rest = <<>> THEN returned'.usersUpdated
                      ELSE local'[p].updatedCount
             written == IF u.id = UserId THEN user' ELSE others'[u.id]
         IN /\ ~ok => /\ user' = user
                       /\ others' = others
                       /\ after = before
            /\ ok => /\ written.inputTokensRemaining = InputLimit(u.plan)
                      /\ written.outputTokensRemaining = OutputLimit(u.plan)
                      /\ after = before + 1
            /\ IF rest = <<>>
               THEN /\ pc'[p] = "idle"
                    /\ returned'.op = "sweep"
                    /\ returned'.code = "ok"
               ELSE /\ pc'[p] = "sweep_update"
                    /\ local'[p].usersToReset = rest]_vars

\* C22 witness: a sweep over two due subscribers has returned the count 1:
\* the update of u2 threw and left it due, u3 was refilled after it.
C22_Witness ==
  /\ returned.op = "sweep"
  /\ returned.code = "ok"
  /\ returned.usersUpdated = 1
  /\ calls = 1
  /\ others["u2"].plan = "LITE"
  /\ IsDue(others["u2"].tokenResetDate, now)
  /\ others["u2"].inputTokensRemaining = 0
  /\ others["u3"].plan = "PRO"
  /\ others["u3"].inputTokensRemaining = TokensProInput
  /\ ~IsDue(others["u3"].tokenResetDate, now)

\* C23: requestCancellation on a subscriber without a subscription id or
\* with a plan that is not the paid one returns the 404 failure in the step
\* that reads the row, and a failed provider fetch returns the 400 failure;
\* neither step changes a field of the subscriber.
C23_CancellationRefused ==
  [][\A p \in Procs :
       /\ (/\ RequestCancellationRead(p)
           /\ (user.subscriptionId = NULL \/ user.plan # "PREMIUM")) =>
             /\ pc'[p] = "idle"
             /\ returned'.op = "cancel"
             /\ returned'.code = "404"
             /\ user' = user
       /\ RequestCancellationFetchWith(p, FALSE) =>
             /\ pc'[p] = "idle"
             /\ returned'.op = "cancel"
             /\ returned'.code = "400"
             /\ user' = user]_vars

\* C23 witness: a subscriber whose subscription has expired (the id is
\* still stored, the plan is FREE) has asked for cancellation and got 404.
C23_Witness ==
  /\ returned.op = "cancel"
  /\ returned.code = "404"
  /\ user.subscriptionId # NULL
  /\ user.plan = "FREE"
  /\ user.subscriptionStatus = "expired"

\* C24: the step that completes a successful requestCancellation sets
\* subscriptionStatus to "cancellation_requested", leaves every other field
\* of the subscriber as it was, and ends the request: the fetch that came
\* before it was the request's only call to the provider.
C24_CancellationOnlyMarks ==
  [][\A p \in Procs :
       RequestCancellationUpdate(p) =>
         /\ user'.subscriptionStatus = "cancellation_requested"
         /\ \A f \in DOMAIN user \ {"subscriptionStatus"} :
              user'[f] = user[f]
         /\ pc'[p] = "idle"
         /\ returned'.op = "cancel"
         /\ returned'.code = "ok"]_vars

\* C24 witness: a paid subscriber has asked for cancellation successfully
\* and still has the plan, the allocation and the billing data of the sync.
C24_Witness ==
  /\ returned.op = "cancel"
  /\ returned.code = "ok"
  /\ user.subscriptionStatus = "cancellation_requested"
  /\ user.plan = "PREMIUM"
  /\ user.subscriptionId # NULL
  /\ user.nextBillingDate # NULL
  /\ ~user.cancelAtBillingDate
  /\ user.inputTokensRemaining = TokensProInput

\* The statuses the classification of a provider response can give: the
\* three of the active and cancelled cases, or the provider's own status.
ClassifiedStatuses ==
  {"active", "cancelling", "expired"}
    \cup {Val(st) : st \in DodoStatuses \ {NULL}}

\* C25: the write of a successful sync leaves a status that the
\* classification gives, whatever the status was before; in particular the
\* marker "cancellation_requested" does not survive it.
C25_SyncOverwritesRequest ==
  [][\A p \in Procs :
       SyncUpdate(p) =>
         /\ user'.subscriptionStatus \in ClassifiedStatuses
         /\ user'.subscriptionStatus # "cancellation_requested"]_vars

\* C25 witness: the last request that returned was a successful
\* requestCancellation, and the sync of a response that is active with the
\* cancel flag has since written "cancelling" over the marker.
C25_Witness ==
  /\ returned.op = "cancel"
  /\ returned.code = "ok"
  /\ user.subscriptionStatus = "cancelling"
  /\ user.cancelAtBillingDate
  /\ \E p \in Procs :
       /\ pc[p] = "init_read"
       /\ local[p].dodoStatus = Some("active")
       /\ local[p].cancelAtNext

\* Slot p is inside a getUserSubscriptionStatus call that has awaited the
\* sync or is awaiting it.
InGetStatusSync(p) == local[p].via = "getstatus"

\* The stored row is a cancelling subscription whose grace period is over.
GraceElapsed ==
  /\ user.subscriptionStatus = "cancelling"
  /\ IsDue(user.nextBillingDate, now)

\* A getUserSubscriptionStatus that finds a subscription and no billing
\* date that has passed goes to its own fetch, and neither the read nor
\* that fetch changes a field of the subscriber; one that finds a billing
\* date that has passed awaits the sync first.
GetStatusRoutes(p) ==
  /\ (GetStatusRead(p) /\ user.subscriptionId # NULL) =>
        /\ user' = user
        /\ pc'[p] = IF IsDue(user.nextBillingDate, now)
                    THEN "getstatus_sync" ELSE "getstatus_fetch"
  /\ GetStatusFetch(p) => user' = user

\* C26 as stated: in addition, whenever a getUserSubscriptionStatus that
\* ran the sync returns while the stored row is a cancelling subscription
\* whose grace period is over, it leaves plan FREE and status "expired".
C26_SelfHealingRead ==
  [][\A p \in Procs :
       /\ GetStatusRoutes(p)
       /\ (InGetStatusSync(p) /\ pc'[p] = "idle" /\ GraceElapsed) =>
             /\ user'.plan = "FREE"
             /\ user'.subscriptionStatus = "expired"]_vars

\* C26 amended: in addition, when the sync that the read awaits gets a
\* response that is cancelled, or active with the cancel flag and a
\* next_billing_date not later than now, its write leaves plan FREE and
\* status "expired" and the read returns in that step.
C26_SelfHealingReadWhenSynced ==
  [][\A p \in Procs :
       /\ GetStatusRoutes(p)
       /\ (/\ SyncUpdate(p)
           /\ local[p].via = "getstatus"
           /\ GraceElapsed
           /\ \/ local[p].dodoStatus = Some("cancelled")
              \/ /\ local[p].dodoStatus = Some("active")
                 /\ local[p].cancelAtNext
                 /\ IsDue(local[p].nextBilling, local[p].now)) =>
             /\ user'.plan = "FREE"
             /\ user'.subscriptionStatus = "expired"
             /\ pc'[p] = "idle"
             /\ returned' = StatusSynced]_vars

\* C26 witness: a subscriber that was cancelling with the billing date 1
\* has read the subscription status at 1 or later, and the sync of that
\* read has left plan FREE and status "expired".
C26_Witness ==
  /\ returned = StatusSynced
  /\ user.plan = "FREE"
  /\ user.subscriptionStatus = "expired"
  /\ user.cancelAtBillingDate
  /\ IsDue(user.nextBillingDate, now)
  /\ user.inputTokensRemaining = TokensProInput

\* The five fields of a row that mirror the provider.
Reconciled(row) ==
  <<row.subscriptionStatus, row.plan, row.subscriptionId,
    row.nextBillingDate, row.cancelAtBillingDate>>

\* C27: a step that changes one of the five mirrored fields of the
\* subscriber is the write of a sync, or the write of requestCancellation
\* changing the status alone; no other step of any operation changes one of
\* them, and the sweep changes none of them in the rows of the other
\* subscribers either.
C27_OnlySyncWritesSubscription ==
  [][/\ (Reconciled(user') # Reconciled(user)) =>
          \E p \in Procs :
            \/ SyncUpdate(p)
            \/ /\ RequestCancellationUpdate(p)
               /\ user'.plan = user.plan
               /\ user'.subscriptionId = user.subscriptionId
               /\ user'.nextBillingDate = user.nextBillingDate
               /\ user'.cancelAtBillingDate = user.cancelAtBillingDate
     /\ \A id \in OtherIds :
          Reconciled(others'[id]) = Reconciled(others[id])]_vars

\* The delivery ids are the ids of the pending timers, one timer each, and
\* no pending timer is overdue.
TimeBoxed ==
  /\ processedWebhooks = {t.id : t \in timers}
  /\ \A t1 \in timers, t2 \in timers : t1.id = t2.id => t1 = t2
  /\ \A t \in timers : now <= t.at

\* C28: an id that enters the dedup set gets a cleanup timer due one window
\* later; it leaves the set only when that timer fires, which is not before
\* the window has passed and not after more time than the window has
\* passed; so a delivery whose id has a pending timer (inside the window)
\* is skipped, and one whose id has none (never seen, or seen more than a
\* window ago) calls the sync.
C28_DedupWindow ==
  [][/\ TimeBoxed'
     /\ \A id \in WebhookIds :
          /\ (id \notin processedWebhooks /\ id \in processedWebhooks') =>
                [id |-> id, at |-> now + DedupWindow] \in timers'
          /\ (id \in processedWebhooks /\ id \notin processedWebhooks') =>
                \E t \in timers :
                  t.id = id /\ t.at <= now /\ t \notin timers'
     /\ (calls' # calls) =>
          \A p \in Procs, id \in WebhookIds :
            WebhookWith(p, id, TRUE) =>
              IF \E t \in timers : t.id = id
              THEN pc'[p] = "idle" /\ user' = user /\ timers' = timers
              ELSE pc'[p] = "webhook_fetch"]_vars

\* C28 witness: a delivery of wh_1 has come in one window after the start,
\* when the entries of the earlier deliveries had been cleaned up; it has
\* armed a new timer and is calling the sync for a subscriber that an
\* earlier delivery synced.
C28_Witness ==
  /\ now = DedupWindow
  /\ calls = 2
  /\ timers = {[id |-> "wh_1", at |-> now + DedupWindow]}
  /\ processedWebhooks = {"wh_1"}
  /\ user.subscriptionId # NULL
  /\ \E p \in Procs :
       /\ pc[p] = "webhook_fetch"
       /\ local[p].webhookId = Some("wh_1")

\* C29: the estimate of a text is the least number of tokens that covers
\* the text at four characters a token, and the least whole number that is
\* at least 15% of it; both are natural numbers, and the empty text gives
\* (0, 0).
C29_EstimateCeilings ==
  returned.op = "estimate" =>
    LET length == returned.textLength
        estimatedInput == returned.inputTokens
        estimatedOutput == returned.outputTokens
    IN /\ estimatedInput \in Nat
       /\ estimatedOutput \in Nat
       /\ estimatedInput * 4 >= length
       /\ (estimatedInput - 1) * 4 < length
       /\ estimatedOutput * 100 >= 15 * estimatedInput
       /\ (estimatedOutput - 1) * 100 < 15 * estimatedInput
       /\ length = 0 => estimatedInput = 0 /\ estimatedOutput = 0

\* C29 witness: a text of 25 characters has been estimated at 7 input tokens
\* and 2 output tokens.
C29_Witness ==
  /\ returned.op = "estimate"
  /\ returned.textLength = 25
  /\ returned.inputTokens = 7
  /\ returned.outputTokens = 2

\* The row makes the pre-flight check of request p report exhausted (a pool
\* at zero or below) or not sufficient (a pool below the estimate).
ReportsShortage(p) ==
  \/ user.inputTokensRemaining <= 0
  \/ user.outputTokensRemaining <= 0
  \/ user.inputTokensRemaining < local[p].inputTokens
  \/ user.outputTokensRemaining < local[p].outputTokens

\* The pre-flight check of request p reports in this step: it has read the
\* row and no lazy reset is due, or it has read the row again after its
\* lazy reset.
PreflightReports(p) ==
  /\ pc'[p] # pc[p]
  /\ \/ pc[p] = "preflight" /\ ~IsDue(user.tokenResetDate, now)
     \/ pc[p] = "preflight_reread"

\* C30 as stated: a metered summary request that is rejected with 402 has
\* changed no balance and no video counter.
C30_RejectedChangesNothing ==
  returned.op = "summary" /\ returned.code = "402" => ~returned.changed

\* C30 amended: when the pre-flight check of a metered summary request
\* reports exhausted or not sufficient, the request ends in that step with
\* 402, it has sent no request to the model, and the step changes nothing in
\* the subscriber's row; the lazy reset the check performed before it
\* reported is the only write the request has made.
C30_RejectedAtReport ==
  [][\A p \in Procs :
       PreflightReports(p) /\ ReportsShortage(p) =>
         /\ pc'[p] = "idle"
         /\ returned'.op = "summary"
         /\ returned'.code = "402"
         /\ returned'.aiCalls = 0
         /\ local[p].aiCalls = 0
         /\ user' = user]_vars

\* A request was rejected with 402 by a pre-flight check that had performed
\* its lazy reset and changed a counter with it: the pools are not exhausted
\* and hold less than the estimate; no request was sent to the model.
C30_Witness ==
  /\ returned.op = "summary"
  /\ returned.code = "402"
  /\ returned.aiCalls = 0
  /\ returned.changed
  /\ user.inputTokensRemaining > 0
  /\ user.outputTokensRemaining > 0
  /\ user.videosProcessedThisMonth < VideoLimit(user.plan)

\* C31: when the provider rejects the creation of a checkout with a JSON
\* payload, createCheckoutSession returns that payload as its error and the
\* provider's status code as its statusCode, and the subscriber's row is
\* unchanged.
C31_CheckoutFailurePassthrough ==
  [][\A p \in Procs :
       /\ pc[p] = "checkout_json"
       /\ pc'[p] = "idle"
       /\ local[p].httpStatus # "200"
       /\ local[p].body # NotJson
       => /\ returned'.op = "checkout"
          /\ returned'.error = local[p].body
          /\ returned'.code = local[p].httpStatus
          /\ user' = user]_vars

\* C32: a row that an update of the sweep changes is, when it is changed,
\* the row of a subscriber on a paid plan whose tokenResetDate is not later
\* than now; the rows of FREE subscribers and of paid subscribers whose
\* tokenResetDate is in the future or null are left as they are.
C32_SweepResetsOnlyDue ==
  [][\A id \in {UserId} \cup OtherIds :
       LET row == IF id = UserId THEN user ELSE others[id]
           written == IF id = UserId THEN user' ELSE others'[id]
       IN (written # row /\ \E p \in Procs : ResetAllUpdate(p)) =>
            /\ row.plan \in {"LITE", "PRO"}
            /\ row.tokenResetDate # NULL
            /\ Val(row.tokenResetDate) <= now]_vars

\* C33: the write of a reset (resetTokens called by a check, or the update
\* of the sweep on this subscriber) leaves a tokenResetDate that is strictly
\* later than now, so that a check that follows with no time passing finds
\* nothing due.
C33_ResetMovesDateAhead ==
  [][\A p \in Procs :
       \/ ResetUpdate(p)
       \/ /\ ResetAllUpdateWith(p, TRUE)
          /\ Head(local[p].usersToReset).id = UserId
       => /\ user'.tokenResetDate # NULL
          /\ Val(user'.tokenResetDate) > now
          /\ ~IsDue(user'.tokenResetDate, now')]_vars

\* The allocations of the paid plans of the ledger.
PaidAllocations ==
  {<<PlanTokens(plan).input, PlanTokens(plan).output>> :
     plan \in {"LITE", "PRO"}}

\* C34: a reset (the lazy reset of a check, or the update of the sweep) of a
\* subscriber whose cancelAtBillingDate is set and whose nextBillingDate is
\* not later than now does not write the allocation of a paid plan.
C34_NoRefillAfterGrace ==
  [][\A p \in Procs :
       /\ \/ ResetUpdate(p)
          \/ /\ ResetAllUpdateWith(p, TRUE)
             /\ Head(local[p].usersToReset).id = UserId
       /\ user.cancelAtBillingDate
       /\ IsDue(user.nextBillingDate, now)
       => <<user'.inputTokensRemaining, user'.outputTokensRemaining>>
            \notin PaidAllocations]_vars

\* C35: the allocation that ends a sync whose update found the plan and the
\* nextBillingDate of the row equal to what the provider reports leaves both
\* balances as they are; stated for a sync that runs alone on a row whose
\* allocation ends at the reported date.
C35_SyncKeepsConsumption ==
  [][\A p \in Procs :
       /\ InitUpdate(p)
       /\ local[p].caller = "sync"
       /\ local[p].inStep
       /\ user.tokenResetDate = local[p].date
       /\ \A q \in Procs \ {p} : pc[q] = "idle"
       => /\ user'.inputTokensRemaining = user.inputTokensRemaining
          /\ user'.outputTokensRemaining = user.outputTokensRemaining]_vars

\* C36: the lazy reset of a check does not write over a row that another
\* reset has moved into the next cycle since the check read it: on a row
\* whose tokenResetDate is later than now the write of the lazy reset leaves
\* both balances as they are, so what was consumed in between stays
\* deducted.
C36_StaleResetKeepsConsumption ==
  [][\A p \in Procs :
       /\ ResetUpdate(p)
       /\ local[p].caller = "check"
       /\ user.tokenResetDate # NULL
       /\ Val(user.tokenResetDate) > now
       => /\ user'.inputTokensRemaining = user.inputTokensRemaining
          /\ user'.outputTokensRemaining = user.outputTokensRemaining]_vars

\* C37: a summary request whose call of the model answered with a usage
\* report and that returns successfully has, in the step in which it
\* returns, lowered both balances by exactly the reported amounts.
C37_EveryCallCharged ==
  [][\A p \in Procs :
       /\ pc[p] \in {"ai_consume", "ai_consume_update"}
       /\ pc'[p] = "idle"
       /\ returned'.op = "summary"
       /\ returned'.code = "ok"
       => /\ user'.inputTokensRemaining =
               user.inputTokensRemaining - local[p].inputTokens
          /\ user'.outputTokensRemaining =
               user.outputTokensRemaining - local[p].outputTokens]_vars

\* C38: a delivery whose sync fails leaves the handler with its id taken
\* out of the set, so that the retry of the id is processed; and an entry
\* is taken out by a timer only when that timer is the only one pending for
\* the id and its window has passed, so that no timer of an earlier attempt
\* ends the window of the attempt that succeeded.
C38_RetryKeepsFullWindow ==
  [][/\ \A p \in Procs :
          (pc[p] = "webhook_fetch" /\ pc'[p] = "idle") =>
            Val(local[p].webhookId) \notin processedWebhooks'
     /\ \A id \in WebhookIds :
          (id \in processedWebhooks /\ id \notin processedWebhooks'
             /\ timers' # timers) =>
            \E t \in timers :
              /\ t.id = id
              /\ t.at <= now
              /\ \A t2 \in timers : t2.id = id => t2 = t]_vars

\* C39: the video counter of the subscriber never exceeds the video limit
\* of the subscriber's plan, whatever save requests run side by side.
C39_CounterWithinLimit ==
  user.videosProcessedThisMonth <= VideoLimit(user.plan)

====
